---- MODULE Spec2Model ----
(***************************************************************************)
(* Model of the Modbus RTU master engine of VirtualOS                      *)
(* (Protocol/modbus/modbus_master.c): request slots, request FIFO, send    *)
(* permit, RX ring, sliding-window frame parser, timeout handling and the  *)
(* user callbacks, together with the ring queue and CRC-16 it is built on. *)
(***************************************************************************)
EXTENDS Integers, Sequences, FiniteSets, TLC

\* ------------------------------------------------------------------------
\* Bounds of the model
\* ------------------------------------------------------------------------
MaxSubmits == 2         \* calls of mb_mst_pdu_request explored
MaxPeerSends == 1       \* bursts the peer puts on the wire
MaxAnswers == 2         \* frames a peer sends in answer to transmitted requests
MaxQueued == 31         \* requests already queued when exploration starts
MaxChunks == 2          \* chunks of bytes a noisy line delivers
MaxDma == 3             \* bursts the DMA channel stores in the RS485 receive buffer

\* ------------------------------------------------------------------------
\* Program constants
\* ------------------------------------------------------------------------
MASTER_REPEATS == 3
MAX_REQUEST == 32
MODBUS_FRAME_BYTES_MAX == 256
RX_BUFF_SIZE == MODBUS_FRAME_BYTES_MAX * 2
MAX_READ_REG_NUM == 125
MAX_WRITE_REG_NUM == 123
MODBUS_FUN_RD_REG_MUL == 3
MODBUS_FUN_WR_REG_MUL == 16
MODBUS_RESP_ERR_NONE == 0
MODBUS_REG_BYTES_NUM == 2
MODBUS_REG_LEN_BYTES_NUM == 2
MODBUS_CRC_BYTES_NUM == 2
U8 == 256
U16 == 65536

\* ------------------------------------------------------------------------
\* Bit operations and byte macros
\* ------------------------------------------------------------------------
XorBits[a \in Nat, b \in Nat] ==
    IF a = 0 THEN b
    ELSE IF b = 0 THEN a
    ELSE 2 * XorBits[a \div 2, b \div 2] + ((a + b) % 2)

AndBits[a \in Nat, b \in Nat] ==
    IF a = 0 \/ b = 0 THEN 0
    ELSE 2 * AndBits[a \div 2, b \div 2] + ((a % 2) * (b % 2))

\* a ^ b and a & b
BitXor(a, b) == XorBits[a, b]
BitAnd(a, b) == AndBits[a, b]

GET_U8_HIGH_FROM_U16(v) == (v \div 256) % 256
GET_U8_LOW_FROM_U16(v) == v % 256
COMBINE_U8_TO_U16(h, l) == h * 256 + l

\* uint32_t values (timeout_ms, to_timeout, cur_ctr, period_ms) as two 16-bit
\* halves, so that the wrap at 2^32 is part of the arithmetic
U32(n) == [hi |-> (n \div U16) % U16, lo |-> n % U16]

U32Add(a, b) ==
    [hi |-> (a.hi + b.hi + ((a.lo + b.lo) \div U16)) % U16,
     lo |-> (a.lo + b.lo) % U16]

U32Gt(a, b) == a.hi > b.hi \/ (a.hi = b.hi /\ a.lo > b.lo)

U32_MAX == [hi |-> U16 - 1, lo |-> U16 - 1]

\* F applied to the value of e: sequencing of two steps of the code
Then(e, F(_)) == CHOOSE y \in {F(x) : x \in {e}} : TRUE

\* ------------------------------------------------------------------------
\* CRC-16/Modbus: reflected polynomial 0xA001, initial value 0xFFFF
\* ------------------------------------------------------------------------
CRC_POLY == 40961
CRC_INIT == 65535

\* x after n rounds of shift right and conditional xor with the polynomial
CrcShift[x \in Nat, n \in Nat] ==
    IF n = 0 THEN x
    ELSE CrcShift[IF x % 2 = 1 THEN BitXor(x \div 2, CRC_POLY) ELSE x \div 2, n - 1]

CrcTable == [i \in 0..255 |-> CrcShift[i, 8]]

crc16_update(crc, c) ==
    Then(crc, LAMBDA v : BitXor(v \div 256, CrcTable[BitXor(v % 256, c)]))

\* crc16_update over bytes[lo..hi] in order, the range taken half by half
RECURSIVE CrcRange(_, _, _, _)
CrcRange(crc, bytes, lo, hi) ==
    IF lo > hi THEN crc
    ELSE IF lo = hi THEN crc16_update(crc, bytes[lo])
    ELSE Then(CrcRange(crc, bytes, lo, (lo + hi) \div 2), LAMBDA c :
              CrcRange(c, bytes, ((lo + hi) \div 2) + 1, hi))

crc16_update_bytes(crc, bytes) == CrcRange(crc, bytes, 1, Len(bytes))

\* ------------------------------------------------------------------------
\* Ring queue (utils/queue): monotonic rd/wr counters over a zero-filled
\* backing store; physical position = counter & (buf_size - 1).
\* The store is kept as a map from physical position to its non-zero value.
\* ------------------------------------------------------------------------
Min(a, b) == IF a < b THEN a ELSE b

MemRead(buf, p) == IF p \in DOMAIN buf THEN buf[p] ELSE 0

MemStore(buf, upd) ==
    LET val(p) == IF p \in DOMAIN upd THEN upd[p] ELSE buf[p]
    IN  [p \in {x \in DOMAIN buf \cup DOMAIN upd : val(x) # 0} |-> val(p)]

queue_init(buf_size) == [buf_size |-> buf_size, rd |-> 0, wr |-> 0, buf |-> <<>>]

QueuePos(q, ctr) == BitAnd(ctr, q.buf_size - 1)

is_queue_empty(q) == q.rd = q.wr

queue_remain_space(q) == q.buf_size - (q.wr - q.rd)

\* number of units queue_add copies
queue_add_count(q, src) == Min(Len(src), queue_remain_space(q))

\* the cells written by copying src[lo..hi] to the positions pos[lo..hi] in
\* order: a cell written twice keeps the later unit
RECURSIVE CopyRange(_, _, _, _)
CopyRange(pos, src, lo, hi) ==
    IF lo = hi THEN pos[lo] :> src[lo]
    ELSE CopyRange(pos, src, ((lo + hi) \div 2) + 1, hi)
         @@ CopyRange(pos, src, lo, (lo + hi) \div 2)

queue_add(q, src) ==
    Then(queue_add_count(q, src), LAMBDA n :
    IF n = 0 THEN q
    ELSE Then([i \in 1..n |-> QueuePos(q, q.wr + i - 1)], LAMBDA pos :
         [q EXCEPT !.buf = MemStore(q.buf, CopyRange(pos, src, 1, n)),
                   !.wr = q.wr + n]))

\* the units queue_peek / queue_get copy out
queue_peek(q, k) ==
    LET n == Min(k, q.wr - q.rd)
    IN  [i \in 1..n |-> MemRead(q.buf, QueuePos(q, q.rd + i - 1))]

queue_get(q, k) == [q EXCEPT !.rd = q.rd + Min(k, q.wr - q.rd)]

\* wr is advanced over k units a DMA channel has stored, at most over the
\* free space
queue_advance_wr(q, k) == [q EXCEPT !.wr = q.wr + Min(k, queue_remain_space(q))]

\* ------------------------------------------------------------------------
\* Requests and request slots
\* ------------------------------------------------------------------------
\* parser states (enum rx_state)
RX_STATE_ADDR == "ADDR"
RX_STATE_FUNC == "FUNC"
RX_STATE_ERR == "ERR"
RX_STATE_DATA_LEN == "DATA_LEN"
RX_STATE_DATA == "DATA"
RX_STATE_REG == "REG"
RX_STATE_REG_LEN == "REG_LEN"
RX_STATE_CRC == "CRC"

\* struct mb_mst_request: resp identifies the user callback (0 = NULL)
NullRequest ==
    [timeout_ms |-> U32(0), resp |-> 0, slave_addr |-> 0, func |-> 0,
     reg_addr |-> 0, reg_len |-> 0]

\* struct req_info after memset(.., 0, ..)
ZeroReqInfo ==
    [request |-> NullRequest, to_timeout |-> U32(0), cur_ctr |-> U32(0),
     repeat_times |-> 0, reg_len |-> 0, valid |-> FALSE]

CHECK_REG_NUM_VALID(reg_len, func) ==
    /\ reg_len > 0
    /\ \/ func = MODBUS_FUN_RD_REG_MUL /\ reg_len <= MAX_READ_REG_NUM
       \/ func = MODBUS_FUN_WR_REG_MUL /\ reg_len <= MAX_WRITE_REG_NUM

\* variant: the timeout is not looked at
check_request_valid_any_timeout(request) ==
    CHECK_REG_NUM_VALID(request.reg_len, request.func)

check_request_valid(request) ==
    /\ CHECK_REG_NUM_VALID(request.reg_len, request.func)
    /\ request.timeout_ms # U32(0)

\* ------------------------------------------------------------------------
\* State
\* ------------------------------------------------------------------------
VARIABLES
    no_retries,   \* the NO_RETRIES compile-time switch
    period_ms,    \* handle->period_ms
    sem,          \* handle->sem, the send permit (uint8_t)
    req_infos,    \* msg_state.req_infos[MAX_REQUEST], indexed 1..MAX_REQUEST
    req_info_q,   \* msg_state.req_info_q: FIFO of slot pointers (slot index)
    wr_q,         \* msg_state.wr_q: register values of queued write requests
    rx_q,         \* msg_state.rx_q: RX ring
    msg,          \* parser fields of msg_state
    uart_rx,      \* bytes the transport holds for the next f_read
    tx_log,       \* calls the engine made on the transport (f_write, f_dir_ctrl)
    cb_log,       \* invocations of user callbacks
    submits,      \* number of mb_mst_pdu_request calls so far
    peer_sends,   \* number of bursts the peer has sent
    rs485,        \* struct rs485_dev of the RS485 driver, its DMA channel and its reader
    slave,        \* the Modbus slave handle, its registers and what it has done
    syslog,       \* struct syslog_instance of the logger, module_info and what f_write got
    shell         \* shell_ctx of the shell, the history and what opts->write got

vars == <<no_retries, period_ms, sem, req_infos, req_info_q, wr_q, rx_q, msg,
          uart_rx, tx_log, cb_log, submits, peer_sends, rs485, slave,
          syslog, shell>>

\* the part of the state a poll works on
Handle ==
    [sem |-> sem, req_infos |-> req_infos, req_info_q |-> req_info_q,
     wr_q |-> wr_q, rx_q |-> rx_q, msg |-> msg, uart_rx |-> uart_rx,
     tx_log |-> tx_log, cb_log |-> cb_log]

\* parser fields after calloc
ZeroMsg ==
    [anchor |-> 0, forward |-> 0, cal_crc |-> 0, recv_crc |-> <<0, 0>>,
     pdu_in |-> 0, pdu_len |-> 0, err_code |-> 0, r_data_len |-> 0,
     state |-> RX_STATE_ADDR, r_data |-> <<>>]

\* poll periods and request parameters explored
PeriodSet == {U32(1), U32(2)}
\* a period of 2^30 ms, with timeouts on both sides of 2^32 - 2^30
HugePeriod == [hi |-> U16 \div 4, lo |-> 0]
TimeoutsFor(period) ==
    IF period = HugePeriod
    THEN {[hi |-> 3 * (U16 \div 4) - 1, lo |-> U16 - 1],
          [hi |-> 3 * (U16 \div 4), lo |-> 0],
          U32_MAX}
    ELSE {U32(1), U32(2)}
SlaveAddr == 6

\* ------------------------------------------------------------------------
\* RS485 driver: the DMA channel stores received bytes in rx_buf, which is
\* also the backing store of rx_queue
\* ------------------------------------------------------------------------
rs485_RX_BUF_SIZE == 256

\* rs485_driver_init: calloc, DMA channel 4 circular over rx_buf, queue_init.
\* dma_cnt counts the bytes the channel has stored, bursts its bursts, rt_flag is
\* USART_INT_FLAG_RT, rd_pc / rd_len / rd_n / rd_buf are the position and the
\* locals of a running rs485_read, read_log is what rs485_read has returned
rs485_driver_init ==
    [rx_queue |-> queue_init(rs485_RX_BUF_SIZE), pre_idx |-> 0, dma_cnt |-> 0,
     rt_flag |-> FALSE, rd_pc |-> "idle", rd_len |-> 0, rd_n |-> 0,
     rd_buf |-> <<>>, read_log |-> <<>>, bursts |-> 0]

\* mb_mst_init, all callbacks present and f_init() true
mb_mst_init(period, nr) ==
    /\ no_retries = nr
    /\ period_ms = period
    /\ sem = 1
    /\ req_infos = [i \in 1..MAX_REQUEST |-> ZeroReqInfo]
    /\ req_info_q = queue_init(MAX_REQUEST)
    /\ wr_q = queue_init(MAX_WRITE_REG_NUM)
    /\ rx_q = queue_init(RX_BUFF_SIZE)
    /\ msg = ZeroMsg
    /\ uart_rx = <<>>
    /\ tx_log = <<>>
    /\ cb_log = <<>>
    /\ submits = 0
    /\ peer_sends = 0

\* ------------------------------------------------------------------------
\* Shell: context and start-up message
\* ------------------------------------------------------------------------
SPS_CMD_MAX == 64
MAX_OUT_LEN == 256
HISTORY_SIZE == 10
RX_QUEUE_SIZE == SPS_CMD_MAX * 2
TX_QUEUE_SIZE == MAX_OUT_LEN

\* "\r\n", "VirtualOS@admin\r\n$ ", "\r\n" PROMPT and WELCOME TIPS
NEW_LINE == <<13, 10>>
PROMPT ==
    <<86, 105, 114, 116, 117, 97, 108, 79, 83, 64, 97, 100, 109, 105, 110,
      13, 10, 36, 32>>
NEW_LINE_PROMPT == NEW_LINE \o PROMPT
DEFAULT_MSG ==
    <<87, 101, 108, 99, 111, 109, 101, 32, 116, 111, 32, 83, 105, 109, 112,
      108, 101, 32, 83, 104, 101, 108, 108, 13, 10, 89, 111, 117, 32, 99, 97,
      110, 32, 116, 121, 112, 101, 32, 96, 108, 105, 115, 116, 96, 32, 116,
      111, 32, 103, 101, 116, 32, 97, 108, 108, 32, 97, 118, 97, 105, 108,
      97, 98, 108, 101, 32, 99, 111, 109, 109, 97, 110, 100, 115, 46, 13, 10,
      13, 10, 86, 105, 114, 116, 117, 97, 108, 79, 83, 64, 97, 100, 109, 105,
      110, 13, 10, 36, 32>>

\* the n bytes of a value in memory, lowest first, and back
RECURSIVE LeBytes(_, _)
LeBytes(v, n) ==
    IF n = 0 THEN <<>> ELSE <<v % U8>> \o LeBytes(v \div U8, n - 1)
\* a value of U16 * U8 or more is read as some value of at least U16
RECURSIVE LeValue(_)
LeValue(bytes) ==
    IF bytes = <<>> THEN 0
    ELSE LET hi == LeValue(Tail(bytes))
         IN  IF hi >= U16 THEN hi ELSE bytes[1] + U8 * hi

\* add_msg: the length as a size_t, then the message; the count the second
\* queue_add returns is not looked at
add_msg(sh, message, len) ==
    IF len = 0 THEN sh
    ELSE Then(queue_add(sh.tx_queue, LeBytes(len, sh.size_t)), LAMBDA q1 :
         IF queue_add_count(sh.tx_queue, LeBytes(len, sh.size_t)) # sh.size_t
         THEN [sh EXCEPT !.tx_queue = q1]
         ELSE [sh EXCEPT !.tx_queue = queue_add(q1, SubSeq(message, 1, len))])

\* simple_shell_init with opts present and welcome = NULL; size_t is the
\* number of bytes of a size_t of the build, out the buffers handed to
\* opts->write, calls the number of shell_dispatch calls so far
simple_shell_init(size_t) ==
    add_msg([size_t |-> size_t, is_active |-> TRUE,
             rx_queue |-> queue_init(RX_QUEUE_SIZE),
             tx_queue |-> queue_init(TX_QUEUE_SIZE),
             cmd_len |-> 0, cmd_buf |-> <<>>, history |-> <<>>,
             out |-> <<>>, calls |-> 0],
            DEFAULT_MSG, Len(DEFAULT_MSG))

\* ------------------------------------------------------------------------
\* Logger: instance and module masks
\* ------------------------------------------------------------------------
MAX_LOG_LENGTH == 256
TOTAL_FRAME_COUNT == 8
LOG_BUFFER_SIZE == MAX_LOG_LENGTH * TOTAL_FRAME_COUNT

LOG_LEVEL_DEBUG == 1
LOG_LEVEL_INFO == 2
LOG_LEVEL_WARN == 3
LOG_LEVEL_ERROR == 4

\* syslog_init with a non-null f_write; size_t is the number of bytes of a
\* size_t of the build, out the buffers handed to f_write, calls the number
\* of origin_log calls so far
syslog_init(size_t) ==
    [size_t |-> size_t, f_write |-> TRUE, initialized |-> TRUE,
     current_log_level |-> LOG_LEVEL_INFO, module_mask |-> 0, module_cnt |-> 0,
     module_info |-> <<>>, log_queue |-> queue_init(LOG_BUFFER_SIZE),
     out |-> <<>>, calls |-> 0]

\* allocate_log_mask; module_info[i + 1] is module_info[i] of the code
allocate_log_mask(s, module_name) ==
    LET cnt == IF s.module_cnt >= 32 THEN 31 ELSE s.module_cnt
    IN  [s EXCEPT !.module_mask = @ + (2 ^ cnt) - BitAnd(@, 2 ^ cnt),
                  !.module_info = [i \in 1..(cnt + 1) |->
                                      IF i = cnt + 1 THEN module_name
                                      ELSE s.module_info[i]],
                  !.module_cnt = cnt + 1]

\* the logger after syslog_init and two modules, "app" and "rs485_master"
LogStart(size_t) ==
    allocate_log_mask(allocate_log_mask(syslog_init(size_t), <<97, 112, 112>>),
                      <<114, 115, 52, 56, 53, 95, 109, 97, 115, 116, 101, 114>>)

\* ------------------------------------------------------------------------
\* Modbus slave engine: handle and work table
\* ------------------------------------------------------------------------
\* number of registers behind the work table
DEV_INFO_END == 32

\* work table of two adjoining entries, each [start, end)
work_table ==
    <<[start |-> 0, end |-> 16], [start |-> 16, end |-> DEV_INFO_END]>>

\* mb_slv_init: the handle with own address and table; dev_info holds the
\* registers the handlers serve, rx_log the requests parsed so far, calls
\* the handler invocations and tx_log the frames written, one per request
mb_slv_init(slave_addr, table) ==
    [slave_addr |-> slave_addr, work_table |-> table,
     dev_info |-> [r \in 0..(DEV_INFO_END - 1) |-> 0],
     rx_log |-> <<>>, calls |-> <<>>, tx_log |-> <<>>]

Init ==
    /\ \E period \in PeriodSet, nr \in BOOLEAN : mb_mst_init(period, nr)
    /\ rs485 = rs485_driver_init
    /\ slave = mb_slv_init(SlaveAddr, work_table)
    /\ syslog = LogStart(4)
    /\ shell = simple_shell_init(4)

\* the build as shipped (NO_RETRIES = 1) and the build with retries
InitNoRetries ==
    /\ \E period \in PeriodSet : mb_mst_init(period, TRUE)
    /\ rs485 = rs485_driver_init
    /\ slave = mb_slv_init(SlaveAddr, work_table)
    /\ syslog = LogStart(4)
    /\ shell = simple_shell_init(4)
InitRetries ==
    /\ \E period \in PeriodSet : mb_mst_init(period, FALSE)
    /\ rs485 = rs485_driver_init
    /\ slave = mb_slv_init(SlaveAddr, work_table)
    /\ syslog = LogStart(4)
    /\ shell = simple_shell_init(4)

\* handles whose elapsed-time counter can wrap within a few polls
InitWrap ==
    /\ \E period \in {U32(1), HugePeriod}, nr \in BOOLEAN : mb_mst_init(period, nr)
    /\ rs485 = rs485_driver_init
    /\ slave = mb_slv_init(SlaveAddr, work_table)
    /\ syslog = LogStart(4)
    /\ shell = simple_shell_init(4)

\* ------------------------------------------------------------------------
\* mb_mst_pdu_request
\* ------------------------------------------------------------------------
\* variant: with no free slot the first slot is handed out again
allow_req_info_reuse(infos) ==
    IF \E i \in 1..MAX_REQUEST : ~infos[i].valid
    THEN CHOOSE i \in 1..MAX_REQUEST :
            ~infos[i].valid /\ \A j \in 1..(i - 1) : infos[j].valid
    ELSE 1

\* index of the slot allow_req_info hands out, 0 when none is free
allow_req_info(infos) ==
    IF \E i \in 1..MAX_REQUEST : ~infos[i].valid
    THEN CHOOSE i \in 1..MAX_REQUEST :
            ~infos[i].valid /\ \A j \in 1..(i - 1) : infos[j].valid
    ELSE 0

\* reg_data = <<>> stands for a NULL pointer
mb_mst_pdu_request(h, request, reg_data, reg_len) ==
    IF ~check_request_valid(request) THEN h
    ELSE IF request.func = MODBUS_FUN_WR_REG_MUL /\ reg_len # request.reg_len THEN h
    ELSE IF /\ request.func = MODBUS_FUN_WR_REG_MUL
            /\ (reg_len > MAX_WRITE_REG_NUM \/ reg_len = 0 \/ reg_data = <<>>) THEN h
    ELSE LET slot == allow_req_info(h.req_infos) IN
         IF slot = 0 THEN h
         ELSE LET new_req_info ==
                      [request |-> request, to_timeout |-> request.timeout_ms,
                       cur_ctr |-> U32(0), repeat_times |-> 0, reg_len |-> reg_len,
                       valid |-> TRUE]
              IN  [h EXCEPT
                     !.req_infos = [h.req_infos EXCEPT ![slot] = new_req_info],
                     !.req_info_q = queue_add(h.req_info_q, <<slot>>),
                     !.wr_q = queue_add(h.wr_q, SubSeq(reg_data, 1, reg_len))]

\* ------------------------------------------------------------------------
\* Frame parser. p = [msg |-> parser fields, rx_q |-> RX ring]
\* ------------------------------------------------------------------------
check_rx_queue_remain_data(p) == p.rx_q.wr - p.msg.forward

get_rx_queue_remain_data(p) ==
    MemRead(p.rx_q.buf, BitAnd(p.msg.forward, p.rx_q.buf_size - 1))

\* variant: forward is put back on the discarded byte
rebase_parser_rewind(p) ==
    [msg |-> [p.msg EXCEPT !.state = RX_STATE_ADDR,
                           !.err_code = MODBUS_RESP_ERR_NONE,
                           !.anchor = p.msg.anchor + 1,
                           !.forward = p.msg.anchor],
     rx_q |-> [p.rx_q EXCEPT !.rd = p.msg.anchor + 1]]

\* variant: everything read so far is discarded
rebase_parser_skip_region(p) ==
    [msg |-> [p.msg EXCEPT !.state = RX_STATE_ADDR,
                           !.err_code = MODBUS_RESP_ERR_NONE,
                           !.anchor = p.msg.forward],
     rx_q |-> [p.rx_q EXCEPT !.rd = p.msg.forward]]

\* variant: the parser state is left as it was
rebase_parser_keep_state(p) ==
    [msg |-> [p.msg EXCEPT !.err_code = MODBUS_RESP_ERR_NONE,
                           !.anchor = p.msg.anchor + 1,
                           !.forward = p.msg.anchor + 1],
     rx_q |-> [p.rx_q EXCEPT !.rd = p.msg.anchor + 1]]

rebase_parser(p) ==
    [msg |-> [p.msg EXCEPT !.state = RX_STATE_ADDR,
                           !.err_code = MODBUS_RESP_ERR_NONE,
                           !.anchor = p.msg.anchor + 1,
                           !.forward = p.msg.anchor + 1],
     rx_q |-> [p.rx_q EXCEPT !.rd = p.msg.anchor + 1]]

\* variant: rd is moved one byte past the accepted frame
flush_parser_past(p) ==
    [msg |-> [p.msg EXCEPT !.state = RX_STATE_ADDR, !.anchor = p.msg.forward],
     rx_q |-> [p.rx_q EXCEPT !.rd = p.msg.forward + 1]]

flush_parser(p) ==
    [msg |-> [p.msg EXCEPT !.state = RX_STATE_ADDR, !.anchor = p.msg.forward],
     rx_q |-> [p.rx_q EXCEPT !.rd = p.msg.forward]]

\* the same iteration without the upper limit on the announced data length
ParserStep_any_length(p, c, slave_addr) ==
    LET m == p.msg
        crc == crc16_update(m.cal_crc, c)
        go(mm) == [msg |-> mm, rx_q |-> p.rx_q, done |-> FALSE]
        resync == rebase_parser(p) @@ [done |-> FALSE]
    IN
    CASE m.state = RX_STATE_ADDR ->
            IF slave_addr = c
            THEN go([m EXCEPT !.state = RX_STATE_FUNC,
                              !.cal_crc = crc16_update(CRC_INIT, c)])
            ELSE resync
      [] m.state = RX_STATE_FUNC ->
            IF c = MODBUS_FUN_RD_REG_MUL
            THEN go([m EXCEPT !.state = RX_STATE_DATA_LEN, !.cal_crc = crc])
            ELSE IF c = MODBUS_FUN_WR_REG_MUL
            THEN go([m EXCEPT !.pdu_in = 0, !.pdu_len = MODBUS_REG_BYTES_NUM,
                              !.state = RX_STATE_REG, !.cal_crc = crc])
            ELSE IF BitAnd(c, 128) # 0
            THEN go([m EXCEPT !.cal_crc = crc, !.state = RX_STATE_ERR])
            ELSE resync
      [] m.state = RX_STATE_ERR ->
            go([m EXCEPT !.err_code = c, !.pdu_in = 0,
                         !.pdu_len = MODBUS_CRC_BYTES_NUM,
                         !.state = RX_STATE_CRC, !.cal_crc = crc])
      [] m.state = RX_STATE_DATA_LEN ->
            IF FALSE
            THEN resync
            ELSE go([m EXCEPT !.pdu_in = 0, !.pdu_len = c,
                              !.state = RX_STATE_DATA, !.cal_crc = crc,
                              !.r_data = <<>>])
      [] m.state = RX_STATE_DATA ->
            LET in == (m.pdu_in + 1) % U8
                m1 == [m EXCEPT !.r_data = MemStore(m.r_data, m.pdu_in :> c),
                                !.pdu_in = in, !.cal_crc = crc]
            IN  IF in >= m.pdu_len
                THEN go([m1 EXCEPT !.r_data_len = in, !.pdu_in = 0,
                                   !.pdu_len = MODBUS_CRC_BYTES_NUM,
                                   !.state = RX_STATE_CRC])
                ELSE go(m1)
      [] m.state = RX_STATE_REG ->
            LET in == (m.pdu_in + 1) % U8
                m1 == [m EXCEPT !.pdu_in = in, !.cal_crc = crc]
            IN  IF in >= m.pdu_len
                THEN go([m1 EXCEPT !.pdu_in = 0,
                                   !.pdu_len = MODBUS_REG_LEN_BYTES_NUM,
                                   !.state = RX_STATE_REG_LEN])
                ELSE go(m1)
      [] m.state = RX_STATE_REG_LEN ->
            LET in == (m.pdu_in + 1) % U8
                m1 == [m EXCEPT !.pdu_in = in, !.cal_crc = crc]
            IN  IF in >= m.pdu_len
                THEN go([m1 EXCEPT !.pdu_in = 0,
                                   !.pdu_len = MODBUS_CRC_BYTES_NUM,
                                   !.state = RX_STATE_CRC])
                ELSE go(m1)
      [] m.state = RX_STATE_CRC ->
            LET in == (m.pdu_in + 1) % U8
                m1 == [m EXCEPT !.recv_crc[m.pdu_in + 1] = c, !.pdu_in = in]
                p1 == [msg |-> m1, rx_q |-> p.rx_q]
                recv_crc == COMBINE_U8_TO_U16(m1.recv_crc[2], m1.recv_crc[1])
            IN  IF in >= m.pdu_len
                THEN IF m.cal_crc = recv_crc
                     THEN flush_parser(p1) @@ [done |-> TRUE]
                     ELSE rebase_parser(p1) @@ [done |-> FALSE]
                ELSE go(m1)

\* one iteration of the while loop of _recv_parser on byte c, forward already
\* incremented; the result carries done = TRUE when the loop returns true
ParserStep(p, c, slave_addr) ==
    LET m == p.msg
        crc == crc16_update(m.cal_crc, c)
        go(mm) == [msg |-> mm, rx_q |-> p.rx_q, done |-> FALSE]
        resync == rebase_parser(p) @@ [done |-> FALSE]
    IN
    CASE m.state = RX_STATE_ADDR ->
            IF slave_addr = c
            THEN go([m EXCEPT !.state = RX_STATE_FUNC,
                              !.cal_crc = crc16_update(CRC_INIT, c)])
            ELSE resync
      [] m.state = RX_STATE_FUNC ->
            IF c = MODBUS_FUN_RD_REG_MUL
            THEN go([m EXCEPT !.state = RX_STATE_DATA_LEN, !.cal_crc = crc])
            ELSE IF c = MODBUS_FUN_WR_REG_MUL
            THEN go([m EXCEPT !.pdu_in = 0, !.pdu_len = MODBUS_REG_BYTES_NUM,
                              !.state = RX_STATE_REG, !.cal_crc = crc])
            ELSE IF BitAnd(c, 128) # 0
            THEN go([m EXCEPT !.cal_crc = crc, !.state = RX_STATE_ERR])
            ELSE resync
      [] m.state = RX_STATE_ERR ->
            go([m EXCEPT !.err_code = c, !.pdu_in = 0,
                         !.pdu_len = MODBUS_CRC_BYTES_NUM,
                         !.state = RX_STATE_CRC, !.cal_crc = crc])
      [] m.state = RX_STATE_DATA_LEN ->
            IF c > MAX_READ_REG_NUM * 2
            THEN resync
            ELSE go([m EXCEPT !.pdu_in = 0, !.pdu_len = c,
                              !.state = RX_STATE_DATA, !.cal_crc = crc,
                              !.r_data = <<>>])
      [] m.state = RX_STATE_DATA ->
            LET in == (m.pdu_in + 1) % U8
                m1 == [m EXCEPT !.r_data = MemStore(m.r_data, m.pdu_in :> c),
                                !.pdu_in = in, !.cal_crc = crc]
            IN  IF in >= m.pdu_len
                THEN go([m1 EXCEPT !.r_data_len = in, !.pdu_in = 0,
                                   !.pdu_len = MODBUS_CRC_BYTES_NUM,
                                   !.state = RX_STATE_CRC])
                ELSE go(m1)
      [] m.state = RX_STATE_REG ->
            LET in == (m.pdu_in + 1) % U8
                m1 == [m EXCEPT !.pdu_in = in, !.cal_crc = crc]
            IN  IF in >= m.pdu_len
                THEN go([m1 EXCEPT !.pdu_in = 0,
                                   !.pdu_len = MODBUS_REG_LEN_BYTES_NUM,
                                   !.state = RX_STATE_REG_LEN])
                ELSE go(m1)
      [] m.state = RX_STATE_REG_LEN ->
            LET in == (m.pdu_in + 1) % U8
                m1 == [m EXCEPT !.pdu_in = in, !.cal_crc = crc]
            IN  IF in >= m.pdu_len
                THEN go([m1 EXCEPT !.pdu_in = 0,
                                   !.pdu_len = MODBUS_CRC_BYTES_NUM,
                                   !.state = RX_STATE_CRC])
                ELSE go(m1)
      [] m.state = RX_STATE_CRC ->
            LET in == (m.pdu_in + 1) % U8
                m1 == [m EXCEPT !.recv_crc[m.pdu_in + 1] = c, !.pdu_in = in]
                p1 == [msg |-> m1, rx_q |-> p.rx_q]
                recv_crc == COMBINE_U8_TO_U16(m1.recv_crc[2], m1.recv_crc[1])
            IN  IF in >= m.pdu_len
                THEN IF m.cal_crc = recv_crc
                     THEN flush_parser(p1) @@ [done |-> TRUE]
                     ELSE rebase_parser(p1) @@ [done |-> FALSE]
                ELSE go(m1)

\* _recv_parser: [msg, rx_q, ret]
RECURSIVE _recv_parser(_, _)
_recv_parser(p, slave_addr) ==
    IF check_rx_queue_remain_data(p) = 0
    THEN [msg |-> p.msg, rx_q |-> p.rx_q, ret |-> FALSE]
    ELSE LET c == get_rx_queue_remain_data(p)
             p1 == [msg |-> [p.msg EXCEPT !.forward = p.msg.forward + 1],
                    rx_q |-> p.rx_q]
         IN  Then(ParserStep(p1, c, slave_addr),
                  LAMBDA r :
                     IF r.done
                     THEN [msg |-> r.msg, rx_q |-> r.rx_q, ret |-> TRUE]
                     ELSE _recv_parser([msg |-> r.msg, rx_q |-> r.rx_q], slave_addr))

\* ------------------------------------------------------------------------
\* Master engine. h is a Handle record.
\* ------------------------------------------------------------------------
\* variant: the slot queued last is taken instead of the FIFO head
HeadSlotNewest(h) ==
    queue_peek(h.req_info_q, h.req_info_q.wr - h.req_info_q.rd)[h.req_info_q.wr - h.req_info_q.rd]

\* slot index at the FIFO head (queue_peek of one unit)
HeadSlot(h) == queue_peek(h.req_info_q, 1)[1]

\* variant: the callback is handed pdu_len where the code hands r_data_len
CallRespPduLen(h, resp, err_code, is_timeout) ==
    IF resp = 0 THEN h.cb_log
    ELSE Append(h.cb_log,
                [resp |-> resp,
                 data |-> [i \in 1..h.msg.pdu_len |-> MemRead(h.msg.r_data, i - 1)],
                 len |-> h.msg.pdu_len,
                 err_code |-> err_code,
                 is_timeout |-> is_timeout])

\* a user callback invocation resp(data, len, err_code, is_timeout)
CallResp(h, resp, err_code, is_timeout) ==
    IF resp = 0 THEN h.cb_log
    ELSE Append(h.cb_log,
                [resp |-> resp,
                 data |-> [i \in 1..h.msg.r_data_len |-> MemRead(h.msg.r_data, i - 1)],
                 len |-> h.msg.r_data_len,
                 err_code |-> err_code,
                 is_timeout |-> is_timeout])

\* variant: the head leaves the FIFO but its slot is not cleared
RemoveHeadKeepSlot(h, err_code, is_timeout) ==
    [h EXCEPT !.req_info_q = queue_get(h.req_info_q, 1),
              !.wr_q = queue_get(h.wr_q, h.req_infos[HeadSlot(h)].reg_len),
              !.cb_log = CallResp(h, h.req_infos[HeadSlot(h)].request.resp,
                                  err_code, is_timeout)]

\* the head leaves the FIFO: queue_get on both queues, user callback, memset
RemoveHead(h, err_code, is_timeout) ==
    LET slot == HeadSlot(h)
        info == h.req_infos[slot]
    IN  [h EXCEPT !.req_info_q = queue_get(h.req_info_q, 1),
                  !.wr_q = queue_get(h.wr_q, info.reg_len),
                  !.cb_log = CallResp(h, info.request.resp, err_code, is_timeout),
                  !.req_infos = [h.req_infos EXCEPT ![slot] = ZeroReqInfo]]

_dispatch_rtu_msg(h) ==
    IF is_queue_empty(h.req_info_q) THEN h
    ELSE LET h1 == RemoveHead(h, h.msg.err_code, FALSE)
         IN  [h1 EXCEPT !.msg.err_code = MODBUS_RESP_ERR_NONE]

\* variant: the timeout is declared as soon as the elapsed time reaches it
check_timeout_at_limit(period, info) ==
    LET ctr == U32Add(info.cur_ctr, period)
    IN  IF ~U32Gt(info.to_timeout, ctr)
        THEN [info |-> [info EXCEPT !.cur_ctr = U32(0),
                                    !.repeat_times = (info.repeat_times + 1) % U8],
              ret |-> TRUE]
        ELSE [info |-> [info EXCEPT !.cur_ctr = ctr], ret |-> FALSE]

\* [info, ret]
check_timeout(period, info) ==
    LET ctr == U32Add(info.cur_ctr, period)
    IN  IF U32Gt(ctr, info.to_timeout)
        THEN [info |-> [info EXCEPT !.cur_ctr = U32(0),
                                    !.repeat_times = (info.repeat_times + 1) % U8],
              ret |-> TRUE]
        ELSE [info |-> [info EXCEPT !.cur_ctr = ctr], ret |-> FALSE]

\* the bytes _request_pdu hands to f_write
RequestPdu(h, info) ==
    LET rq == info.request
        hdr == <<rq.slave_addr, rq.func,
                 GET_U8_HIGH_FROM_U16(rq.reg_addr), GET_U8_LOW_FROM_U16(rq.reg_addr),
                 GET_U8_HIGH_FROM_U16(rq.reg_len), GET_U8_LOW_FROM_U16(rq.reg_len)>>
        peeked == queue_peek(h.wr_q, info.reg_len)
        wr_tmp_buf(i) == IF i <= Len(peeked) THEN peeked[i] ELSE 0
        regs == [k \in 1..(2 * rq.reg_len) |->
                    IF k % 2 = 1 THEN GET_U8_HIGH_FROM_U16(wr_tmp_buf((k + 1) \div 2))
                    ELSE GET_U8_LOW_FROM_U16(wr_tmp_buf(k \div 2))]
    IN  Then(IF rq.func = MODBUS_FUN_WR_REG_MUL
             THEN hdr \o <<(rq.reg_len * 2) % U8>> \o regs
             ELSE hdr, LAMBDA body :
        Then(crc16_update_bytes(CRC_INIT, body), LAMBDA crc :
        body \o <<GET_U8_LOW_FROM_U16(crc), GET_U8_HIGH_FROM_U16(crc)>>))

\* variant: the direction pin is switched to TX before the write
_request_pdu_dir_ctrl(h, info) ==
    IF ~check_request_valid(info.request) THEN h
    ELSE [h EXCEPT !.tx_log =
             h.tx_log \o <<[op |-> "f_dir_ctrl", buf |-> <<>>, resp |-> info.request.resp],
                           [op |-> "f_write", buf |-> RequestPdu(h, info),
                            resp |-> info.request.resp]>>]

_request_pdu(h, info) ==
    IF ~check_request_valid(info.request) THEN h
    ELSE [h EXCEPT !.tx_log =
             Append(h.tx_log, [op |-> "f_write", buf |-> RequestPdu(h, info),
                               resp |-> info.request.resp])]

\* the head is sent: permit moved by dsem, time and attempts counted
SendHead(h, slot, dsem) ==
    LET info == h.req_infos[slot]
    IN  Then([info EXCEPT !.cur_ctr = U32Add(info.cur_ctr, period_ms),
                          !.repeat_times = (info.repeat_times + 1) % U8], LAMBDA sent :
        Then([h EXCEPT !.sem = (h.sem + dsem) % U8,
                       !.req_infos = [h.req_infos EXCEPT ![slot] = sent]], LAMBDA h1 :
        _request_pdu(h1, sent)))

\* the branch of master_write taken with NO_RETRIES = 1
master_write_no_retries(h) ==
    LET slot == HeadSlot(h)
        info == h.req_infos[slot]
    IN  IF info.cur_ctr = U32(0) /\ h.sem # 0
        THEN SendHead(h, slot, -1)
        ELSE Then(check_timeout(period_ms, info), LAMBDA t :
             Then([h EXCEPT !.req_infos = [h.req_infos EXCEPT ![slot] = t.info]], LAMBDA h1 :
             IF t.ret
             THEN LET h2 == RemoveHead(h1, MODBUS_RESP_ERR_NONE, TRUE)
                  IN  [h2 EXCEPT !.sem = (h2.sem + 1) % U8]
             ELSE h1))

\* the branch of master_write taken with NO_RETRIES = 0
master_write_retries(h) ==
    LET slot == HeadSlot(h)
        info == h.req_infos[slot]
    IN  IF info.repeat_times < MASTER_REPEATS
        THEN IF info.cur_ctr = U32(0) /\ h.sem = 0
             THEN SendHead(h, slot, 1)
             ELSE [h EXCEPT !.req_infos =
                      [h.req_infos EXCEPT ![slot] = check_timeout(period_ms, info).info]]
        ELSE LET h1 == RemoveHead(h, MODBUS_RESP_ERR_NONE, TRUE)
             IN  [h1 EXCEPT !.sem = (h1.sem - 1) % U8]

master_write(h) ==
    IF is_queue_empty(h.req_info_q) THEN h
    ELSE IF no_retries THEN master_write_no_retries(h)
    ELSE master_write_retries(h)

\* variant: the transport is read before the FIFO is looked at, and the
\* bytes read are dropped when no request is pending
master_read_before_check(h) ==
    LET ptk_len == Min(MODBUS_FRAME_BYTES_MAX, Len(h.uart_rx))
        temp_buf == SubSeq(h.uart_rx, 1, ptk_len)
        h1 == [h EXCEPT !.uart_rx = SubSeq(h.uart_rx, ptk_len + 1, Len(h.uart_rx))]
        ret_q == queue_add_count(h.rx_q, temp_buf)
    IN
    IF ptk_len = 0 THEN h
    ELSE IF is_queue_empty(h.req_info_q) THEN h1
    ELSE
    Then([h1 EXCEPT !.rx_q = queue_add(h.rx_q, temp_buf)], LAMBDA h2 :
    IF ret_q # ptk_len THEN h2
    ELSE
    Then(_recv_parser([msg |-> h2.msg, rx_q |-> h2.rx_q],
                      h2.req_infos[HeadSlot(h2)].request.slave_addr), LAMBDA r :
    Then([h2 EXCEPT !.msg = r.msg, !.rx_q = r.rx_q], LAMBDA h3 :
    IF ~r.ret THEN h3
    ELSE Then(_dispatch_rtu_msg(h3), LAMBDA h4 :
         [h4 EXCEPT !.sem = (h4.sem + 1) % U8]))))

master_read(h) ==
    IF is_queue_empty(h.req_info_q) THEN h
    ELSE
    LET ptk_len == Min(MODBUS_FRAME_BYTES_MAX, Len(h.uart_rx))
        temp_buf == SubSeq(h.uart_rx, 1, ptk_len)
        h1 == [h EXCEPT !.uart_rx = SubSeq(h.uart_rx, ptk_len + 1, Len(h.uart_rx))]
        ret_q == queue_add_count(h.rx_q, temp_buf)
    IN
    IF ptk_len = 0 THEN h
    ELSE
    Then([h1 EXCEPT !.rx_q = queue_add(h.rx_q, temp_buf)], LAMBDA h2 :
    IF ret_q # ptk_len THEN h2
    ELSE
    Then(_recv_parser([msg |-> h2.msg, rx_q |-> h2.rx_q],
                      h2.req_infos[HeadSlot(h2)].request.slave_addr), LAMBDA r :
    Then([h2 EXCEPT !.msg = r.msg, !.rx_q = r.rx_q], LAMBDA h3 :
    IF ~r.ret THEN h3
    ELSE Then(_dispatch_rtu_msg(h3), LAMBDA h4 :
         [h4 EXCEPT !.sem = (h4.sem + 1) % U8]))))

\* variant: the transmit step runs before the receive step
mb_mst_poll_write_first(h) == Then(master_write(h), master_read)

mb_mst_poll(h) == Then(master_read(h), master_write)

\* ------------------------------------------------------------------------
\* Inputs
\* ------------------------------------------------------------------------
\* a frame body followed by its CRC, low byte first
WithCrc(body) ==
    Then(crc16_update_bytes(CRC_INIT, body), LAMBDA crc :
    body \o <<GET_U8_LOW_FROM_U16(crc), GET_U8_HIGH_FROM_U16(crc)>>)

ReadPayload == <<0, 17, 0, 34>>
ReadRespFrame == WithCrc(<<SlaveAddr, MODBUS_FUN_RD_REG_MUL, Len(ReadPayload)>> \o ReadPayload)
WriteAckFrame == WithCrc(<<SlaveAddr, MODBUS_FUN_WR_REG_MUL, 0, 16, 0, 2>>)
ExceptionFrame == WithCrc(<<SlaveAddr, 131, 2>>)

\* what the peer may put on the wire in one burst
PeerBursts ==
    {ReadRespFrame, ExceptionFrame, <<255>>, <<255>> \o ReadRespFrame}

ReadRequest(timeout, resp) ==
    [timeout_ms |-> timeout, resp |-> resp, slave_addr |-> SlaveAddr,
     func |-> MODBUS_FUN_RD_REG_MUL, reg_addr |-> 0, reg_len |-> 2]

WriteRequest(timeout, resp) ==
    [timeout_ms |-> timeout, resp |-> resp, slave_addr |-> SlaveAddr,
     func |-> MODBUS_FUN_WR_REG_MUL, reg_addr |-> 16, reg_len |-> 2]

\* arguments of mb_mst_pdu_request explored; resp names the call
SubmitArgs(resp) ==
    {[request |-> ReadRequest(t, resp), reg_data |-> <<>>, reg_len |-> 0] :
        t \in TimeoutsFor(period_ms)}
    \cup {[request |-> WriteRequest(U32(2), resp), reg_data |-> <<170, 187>>, reg_len |-> 2],
          [request |-> WriteRequest(U32(0), resp), reg_data |-> <<170, 187>>, reg_len |-> 2]}

\* ------------------------------------------------------------------------
\* Actions
\* ------------------------------------------------------------------------
SetHandle(h) ==
    /\ sem' = h.sem
    /\ req_infos' = h.req_infos
    /\ req_info_q' = h.req_info_q
    /\ wr_q' = h.wr_q
    /\ rx_q' = h.rx_q
    /\ msg' = h.msg
    /\ uart_rx' = h.uart_rx
    /\ tx_log' = h.tx_log
    /\ cb_log' = h.cb_log

Submit ==
    /\ submits < MaxSubmits
    /\ \E a \in SubmitArgs(submits + 1) :
          \E h \in {mb_mst_pdu_request(Handle, a.request, a.reg_data, a.reg_len)} :
             SetHandle(h)
    /\ submits' = submits + 1
    /\ UNCHANGED <<shell, syslog, slave, rs485, no_retries, period_ms, peer_sends>>

Poll ==
    /\ \E h \in {mb_mst_poll(Handle)} : SetHandle(h)
    /\ UNCHANGED <<shell, syslog, slave, rs485, no_retries, period_ms, submits, peer_sends>>

PeerSend ==
    /\ peer_sends < MaxPeerSends
    /\ \E burst \in PeerBursts : uart_rx' = uart_rx \o burst
    /\ peer_sends' = peer_sends + 1
    /\ UNCHANGED <<shell, syslog, slave, rs485, no_retries, period_ms, sem, req_infos, req_info_q, wr_q, rx_q,
                   msg, tx_log, cb_log, submits>>

Next == Submit \/ Poll \/ PeerSend

\* frames a slave sends in answer to a request
PeerAnswers == {ReadRespFrame, ExceptionFrame, WriteAckFrame}

\* the slave answers the request on the wire with one whole frame
PeerAnswer ==
    /\ peer_sends < MaxAnswers
    /\ uart_rx = <<>>
    /\ ~is_queue_empty(req_info_q)
    /\ req_infos[queue_peek(req_info_q, 1)[1]].repeat_times >= 1
    /\ \E frame \in PeerAnswers : uart_rx' = frame
    /\ peer_sends' = peer_sends + 1
    /\ UNCHANGED <<shell, syslog, slave, rs485, no_retries, period_ms, sem, req_infos, req_info_q, wr_q, rx_q,
                   msg, tx_log, cb_log, submits>>

NextAnswers == Submit \/ Poll \/ PeerAnswer

Spec == Init /\ [][Next]_vars

SpecNoRetries == InitNoRetries /\ [][Next]_vars

SpecRetries == InitRetries /\ [][Next]_vars

\* mb_mst_pdu_request with arguments of every kind the checks tell apart;
\* requests longer than two registers carry the values 1001, 1002, ...
RegValues(n) == [i \in 1..n |-> 1000 + i]

AnyRequest(func, reg_len, timeout, resp) ==
    [timeout_ms |-> timeout, resp |-> resp, slave_addr |-> SlaveAddr,
     func |-> func, reg_addr |-> 16, reg_len |-> reg_len]

ValidArgs(resp) ==
    {[request |-> ReadRequest(U32(1), resp), reg_data |-> <<>>, reg_len |-> 0],
     [request |-> WriteRequest(U32(1), resp), reg_data |-> <<170, 187>>, reg_len |-> 2],
     [request |-> AnyRequest(MODBUS_FUN_WR_REG_MUL, MAX_WRITE_REG_NUM, U32(1), resp),
      reg_data |-> RegValues(MAX_WRITE_REG_NUM), reg_len |-> MAX_WRITE_REG_NUM]}

InvalidArgs(resp) ==
    {[request |-> AnyRequest(MODBUS_FUN_RD_REG_MUL, 0, U32(1), resp),
      reg_data |-> <<>>, reg_len |-> 0],
     [request |-> AnyRequest(MODBUS_FUN_RD_REG_MUL, MAX_READ_REG_NUM + 1, U32(1), resp),
      reg_data |-> <<>>, reg_len |-> 0],
     [request |-> AnyRequest(MODBUS_FUN_WR_REG_MUL, MAX_WRITE_REG_NUM + 1, U32(1), resp),
      reg_data |-> RegValues(MAX_WRITE_REG_NUM + 1), reg_len |-> MAX_WRITE_REG_NUM + 1],
     [request |-> AnyRequest(MODBUS_FUN_WR_REG_MUL, 0, U32(1), resp),
      reg_data |-> <<170>>, reg_len |-> 0],
     [request |-> ReadRequest(U32(0), resp), reg_data |-> <<>>, reg_len |-> 0],
     [request |-> WriteRequest(U32(0), resp), reg_data |-> <<170, 187>>, reg_len |-> 2],
     [request |-> WriteRequest(U32(1), resp), reg_data |-> <<170, 187>>, reg_len |-> 1],
     [request |-> WriteRequest(U32(1), resp), reg_data |-> <<>>, reg_len |-> 2]}

SubmitAny ==
    /\ submits < MaxSubmits
    /\ \E a \in ValidArgs(submits + 1) \cup InvalidArgs(submits + 1) :
          \E h \in {mb_mst_pdu_request(Handle, a.request, a.reg_data, a.reg_len)} :
             SetHandle(h)
    /\ submits' = submits + 1
    /\ UNCHANGED <<shell, syslog, slave, rs485, no_retries, period_ms, peer_sends>>

\* the slave answers only the requests submitted during exploration: it is
\* silent while the requests queued before are at the head
PeerAnswerLate ==
    /\ PeerAnswer
    /\ req_infos[queue_peek(req_info_q, 1)[1]].request.resp <= MaxSubmits

NextPool == SubmitAny \/ Poll \/ PeerAnswerLate

\* the handle after n read requests were queued in a row, none polled yet
Queued[n \in Nat] ==
    IF n = 0
    THEN [sem |-> 1, req_infos |-> [i \in 1..MAX_REQUEST |-> ZeroReqInfo],
          req_info_q |-> queue_init(MAX_REQUEST),
          wr_q |-> queue_init(MAX_WRITE_REG_NUM),
          rx_q |-> queue_init(RX_BUFF_SIZE), msg |-> ZeroMsg,
          uart_rx |-> <<>>, tx_log |-> <<>>, cb_log |-> <<>>]
    ELSE Then(Queued[n - 1], LAMBDA h :
              mb_mst_pdu_request(h, ReadRequest(U32(1), MaxSubmits + n), <<>>, 0))

InitPool ==
    \E n \in {0, MaxQueued}, nr \in BOOLEAN :
        /\ no_retries = nr
        /\ period_ms = U32(2)
        /\ sem = Queued[n].sem
        /\ req_infos = Queued[n].req_infos
        /\ req_info_q = Queued[n].req_info_q
        /\ wr_q = Queued[n].wr_q
        /\ rx_q = Queued[n].rx_q
        /\ msg = Queued[n].msg
        /\ uart_rx = Queued[n].uart_rx
        /\ tx_log = Queued[n].tx_log
        /\ cb_log = Queued[n].cb_log
        /\ submits = 0
        /\ peer_sends = 0
        /\ rs485 = rs485_driver_init
        /\ slave = mb_slv_init(SlaveAddr, work_table)
        /\ syslog = LogStart(4)
        /\ shell = simple_shell_init(4)

\* a request pool that starts empty or one short of full
SpecPool == InitPool /\ [][NextPool]_vars

\* a read response whose CRC bytes are wrong
BadCrcFrame == <<SlaveAddr, MODBUS_FUN_RD_REG_MUL, 2, 0, 17, 1, 1>>

\* the header of a read response of 16 bytes, with nothing behind it
ShortHeader == <<SlaveAddr, MODBUS_FUN_RD_REG_MUL, 16>>

\* a read response with byte count 0
EmptyReadFrame == WithCrc(<<SlaveAddr, MODBUS_FUN_RD_REG_MUL, 0>>)

\* what a noisy line delivers between two reads: junk, a frame cut in two,
\* headers the parser gives up on, a corrupted frame, whole frames
RxChunks ==
    {<<255>> \o SubSeq(ReadRespFrame, 1, 4),
     SubSeq(ReadRespFrame, 5, Len(ReadRespFrame)),
     <<SlaveAddr, 5>>,
     <<SlaveAddr, MODBUS_FUN_RD_REG_MUL, 2 * MAX_READ_REG_NUM + 1>>,
     BadCrcFrame,
     ExceptionFrame,
     ReadRespFrame}

\* the same line when it also delivers a read-response header with nothing
\* behind it, a read response without payload and a write acknowledgement
LineChunks == RxChunks \cup {ShortHeader, EmptyReadFrame, WriteAckFrame}

PeerChunk ==
    /\ peer_sends < MaxChunks
    /\ \E chunk \in RxChunks : uart_rx' = uart_rx \o chunk
    /\ peer_sends' = peer_sends + 1
    /\ UNCHANGED <<shell, syslog, slave, rs485, no_retries, period_ms, sem, req_infos, req_info_q, wr_q, rx_q,
                   msg, tx_log, cb_log, submits>>

NextRx == Poll \/ PeerChunk

PeerChunkAny ==
    /\ peer_sends < MaxChunks
    /\ \E chunk \in LineChunks : uart_rx' = uart_rx \o chunk
    /\ peer_sends' = peer_sends + 1
    /\ UNCHANGED <<shell, syslog, slave, rs485, no_retries, period_ms, sem, req_infos, req_info_q, wr_q, rx_q,
                   msg, tx_log, cb_log, submits>>

NextLine == Poll \/ PeerChunkAny

\* two read requests are queued, then the line is noisy
InitRx ==
    \E nr \in BOOLEAN :
        /\ no_retries = nr
        /\ period_ms = U32(1)
        /\ sem = Queued[2].sem
        /\ req_infos = Queued[2].req_infos
        /\ req_info_q = Queued[2].req_info_q
        /\ wr_q = Queued[2].wr_q
        /\ rx_q = Queued[2].rx_q
        /\ msg = Queued[2].msg
        /\ uart_rx = Queued[2].uart_rx
        /\ tx_log = Queued[2].tx_log
        /\ cb_log = Queued[2].cb_log
        /\ submits = 0
        /\ peer_sends = 0
        /\ rs485 = rs485_driver_init
        /\ slave = mb_slv_init(SlaveAddr, work_table)
        /\ syslog = LogStart(4)
        /\ shell = simple_shell_init(4)

SpecRx == InitRx /\ [][NextRx]_vars

\* two read requests are queued, then the line delivers any of LineChunks
SpecLine == InitRx /\ [][NextLine]_vars

\* the same, with mb_mst_poll called every period
SpecLineLive == InitRx /\ [][NextLine]_vars /\ WF_vars(Poll)

\* ------------------------------------------------------------------------
\* RS485 driver: DMA channel, receive-timeout interrupt and rs485_read
\* ------------------------------------------------------------------------
\* the line delivers the bytes 1, 2, ..., 251, 1, 2, ...: byte number k
LineByte(k) == (k % 251) + 1

\* lengths of the bursts between two idle periods of the line
BurstLens == {1, 100, rs485_RX_BUF_SIZE - 1, rs485_RX_BUF_SIZE}

\* the len argument of rs485_read
ReadLens == {8, rs485_RX_BUF_SIZE}

master_vars ==
    <<no_retries, period_ms, sem, req_infos, req_info_q, wr_q, rx_q, msg,
      uart_rx, tx_log, cb_log, submits, peer_sends>>

\* the hardware: the DMA channel stores a burst of n bytes behind the ones
\* it stored before, circularly; the line goes idle and the receive-timeout
\* flag is raised. No more bytes arrive than the reader has made room for.
DmaReceive ==
    /\ rs485.bursts < MaxDma
    /\ ~rs485.rt_flag
    /\ \E n \in BurstLens :
          /\ rs485.dma_cnt + n - rs485.rx_queue.rd <= rs485_RX_BUF_SIZE
          /\ rs485' =
                [rs485 EXCEPT
                    !.rx_queue.buf =
                        MemStore(@, CopyRange(
                            [i \in 1..n |-> (rs485.dma_cnt + i - 1) % rs485_RX_BUF_SIZE],
                            [i \in 1..n |-> LineByte(rs485.dma_cnt + i - 1)], 1, n)),
                    !.dma_cnt = @ + n,
                    !.bursts = @ + 1,
                    !.rt_flag = TRUE]
    /\ UNCHANGED <<master_vars, slave, syslog, shell>>

\* the interrupt handler, run to completion
USART0_IRQHandler ==
    /\ rs485.rt_flag
    /\ LET remain_cnt == rs485_RX_BUF_SIZE - (rs485.dma_cnt % rs485_RX_BUF_SIZE)
           cur_pos == rs485_RX_BUF_SIZE - remain_cnt
           cur_receive == IF cur_pos >= rs485.pre_idx
                          THEN cur_pos - rs485.pre_idx
                          ELSE rs485_RX_BUF_SIZE - rs485.pre_idx + cur_pos
       IN  rs485' = [rs485 EXCEPT !.rx_queue = queue_advance_wr(@, cur_receive),
                                  !.pre_idx = cur_pos,
                                  !.rt_flag = FALSE]
    /\ UNCHANGED <<master_vars, slave, syslog, shell>>

\* rs485_read = queue_get in the foreground, in the three steps an interrupt
\* or the DMA channel can come between: the counters are read and the count
\* is fixed, the units are copied out, rd is published
rs485_read_load ==
    /\ rs485.rd_pc = "idle"
    /\ rs485.rx_queue.wr > rs485.rx_queue.rd
    /\ \E len \in ReadLens :
          rs485' = [rs485 EXCEPT !.rd_pc = "copy",
                                 !.rd_len = len,
                                 !.rd_n = Min(len, rs485.rx_queue.wr - rs485.rx_queue.rd)]
    /\ UNCHANGED <<master_vars, slave, syslog, shell>>

rs485_read_copy ==
    /\ rs485.rd_pc = "copy"
    /\ rs485' = [rs485 EXCEPT !.rd_pc = "store",
                              !.rd_buf = queue_peek(rs485.rx_queue, rs485.rd_n)]
    /\ UNCHANGED <<master_vars, slave, syslog, shell>>

rs485_read_store ==
    /\ rs485.rd_pc = "store"
    /\ rs485' = [rs485 EXCEPT !.rd_pc = "idle",
                              !.rx_queue.rd = @ + rs485.rd_n,
                              !.read_log = @ \o rs485.rd_buf,
                              !.rd_buf = <<>>]
    /\ UNCHANGED <<master_vars, slave, syslog, shell>>

NextRs485 ==
    DmaReceive \/ USART0_IRQHandler \/ rs485_read_load \/ rs485_read_copy
    \/ rs485_read_store

InitRs485 ==
    /\ mb_mst_init(U32(1), TRUE)
    /\ rs485 = rs485_driver_init
    /\ slave = mb_slv_init(SlaveAddr, work_table)
    /\ syslog = LogStart(4)
    /\ shell = simple_shell_init(4)

SpecRs485 == InitRs485 /\ [][NextRs485]_vars

\* a line that keeps delivering valid frames of the addressed slave, more
\* than one per poll: FloodFrames exception frames in one burst
FloodFrames == 80
FloodBurst ==
    [i \in 1..(FloodFrames * Len(ExceptionFrame)) |->
        ExceptionFrame[((i - 1) % Len(ExceptionFrame)) + 1]]

PeerFlood ==
    /\ peer_sends < MaxChunks
    /\ \E burst \in {FloodBurst, ReadRespFrame} : uart_rx' = uart_rx \o burst
    /\ peer_sends' = peer_sends + 1
    /\ UNCHANGED <<shell, syslog, slave, rs485, no_retries, period_ms, sem, req_infos, req_info_q, wr_q, rx_q,
                   msg, tx_log, cb_log, submits>>

NextFlood == Poll \/ PeerFlood

\* requests are queued while the line is flooded
SpecFlood == InitPool /\ [][NextFlood]_vars

\* a peer that only answers requests it has received
SpecAnswers == Init /\ [][NextAnswers]_vars

\* the scheduler keeps calling mb_mst_poll every period
SpecLive == InitWrap /\ [][Next]_vars /\ WF_vars(Poll)

\* ------------------------------------------------------------------------
\* Observations used by the properties
\* ------------------------------------------------------------------------
\* slot indices in the request FIFO, head first
Fifo == queue_peek(req_info_q, req_info_q.wr - req_info_q.rd)

\* the request (named by its callback) has been written to the transport
Writes(id) == {i \in DOMAIN tx_log : tx_log[i].op = "f_write" /\ tx_log[i].resp = id}

\* the callbacks invoked for a request
Callbacks(id) == {i \in DOMAIN cb_log : cb_log[i].resp = id}

\* requests written to the transport and not yet completed
Outstanding == {id \in 1..MaxSubmits : Writes(id) # {} /\ Callbacks(id) = {}}

\* callbacks invoked by the current step
NewCallbacks == {i \in DOMAIN cb_log' : i > Len(cb_log)}

\* transport calls made by the current step
NewTransportCalls == {i \in DOMAIN tx_log' : i > Len(tx_log)}

\* ------------------------------------------------------------------------
\* C1: only the FIFO head is ever written to the transport, every request
\* submitted before it has completed by then, and at most one written
\* request is awaiting completion.
\* ------------------------------------------------------------------------
C1_HeadOnly ==
    \A i \in NewTransportCalls :
        tx_log'[i].op = "f_write" =>
            /\ Fifo' # <<>>
            /\ req_infos'[Fifo'[1]].request.resp = tx_log'[i].resp
            /\ \A s \in 1..MAX_REQUEST :
                  req_infos'[s].valid => req_infos'[s].request.resp >= tx_log'[i].resp
            /\ \A id \in 1..(tx_log'[i].resp - 1) : Writes(id)' # {} => Callbacks(id)' # {}

C1_StrictFifo == [](Cardinality(Outstanding) <= 1) /\ [][C1_HeadOnly]_vars

\* the second request is on the wire after the first one completed
C1_Witness ==
    /\ Callbacks(1) # {}
    /\ Writes(1) # {}
    /\ Writes(2) # {}

\* ------------------------------------------------------------------------
\* C2: the send permit is always 0 or 1.
\* ------------------------------------------------------------------------
C2_PermitBinary == sem \in {0, 1}

\* ------------------------------------------------------------------------
\* C3: the permit is 0 exactly when the FIFO is non-empty and its head has
\* been transmitted at least once.
\* ------------------------------------------------------------------------
\* "Transmitted" is read either as written to the transport or as
\* repeat_times >= 1; the claim is taken to hold when it holds under one of
\* the two readings.
C3_PermitIffInFlight ==
    \/ (sem = 0) <=> (Fifo # <<>> /\ Writes(req_infos[Fifo[1]].request.resp) # {})
    \/ (sem = 0) <=> (Fifo # <<>> /\ req_infos[Fifo[1]].repeat_times >= 1)

\* ------------------------------------------------------------------------
\* C5: a callback with is_timeout = FALSE is invoked only for a head that
\* has been transmitted (repeat_times >= 1 before the step).
\* ------------------------------------------------------------------------
C5_ResponseOnlyAfterTransmit ==
    [][\A i \in NewCallbacks :
          ~cb_log'[i].is_timeout =>
              /\ Fifo # <<>>
              /\ req_infos[Fifo[1]].request.resp = cb_log'[i].resp
              /\ req_infos[Fifo[1]].repeat_times >= 1]_vars

\* ------------------------------------------------------------------------
\* C6: with retries enabled, a request that completes by timeout has been
\* written to the transport MASTER_REPEATS times and got exactly one
\* callback, with is_timeout = TRUE.
\* ------------------------------------------------------------------------
C6_ThreeTransmissions ==
    ~no_retries =>
        \A id \in 1..MaxSubmits :
            (\E i \in Callbacks(id) : cb_log[i].is_timeout) =>
                /\ Cardinality(Writes(id)) = MASTER_REPEATS
                /\ Cardinality(Callbacks(id)) = 1

\* ------------------------------------------------------------------------
\* C7: with NO_RETRIES, a completed request has been written to the
\* transport exactly once and got exactly one callback.
\* ------------------------------------------------------------------------
C7_SingleTransmission ==
    no_retries =>
        \A id \in 1..MaxSubmits :
            Callbacks(id) # {} =>
                /\ Cardinality(Writes(id)) = 1
                /\ Cardinality(Callbacks(id)) = 1

\* ------------------------------------------------------------------------
\* C8: a poll that finds the permit at 1 and the head with cur_ctr = 0
\* writes the head's PDU once, takes the permit, counts the attempt and
\* sets cur_ctr to period_ms.
\* ------------------------------------------------------------------------
C8_TransmitStep ==
    [][(Poll /\ sem = 1 /\ Fifo # <<>> /\ req_infos[Fifo[1]].cur_ctr = U32(0)) =>
          LET slot == Fifo[1] IN
          /\ tx_log' = Append(tx_log,
                              [op |-> "f_write",
                               buf |-> RequestPdu(Handle, req_infos[slot]),
                               resp |-> req_infos[slot].request.resp])
          /\ sem' = 0
          /\ req_infos'[slot].repeat_times = req_infos[slot].repeat_times + 1
          /\ req_infos'[slot].cur_ctr = period_ms]_vars

\* ------------------------------------------------------------------------
\* C9 (as stated): every write of a request PDU is immediately preceded by
\* a dir_ctrl(TX) call.
\* ------------------------------------------------------------------------
C9_DirCtrlBeforeWrite ==
    \A i \in DOMAIN tx_log :
        tx_log[i].op = "f_write" => (i > 1 /\ tx_log[i - 1].op = "f_dir_ctrl")

\* C9 (amended): the engine never calls dir_ctrl, neither before a write nor
\* after an exchange; every call it makes on the transport's output side is
\* the f_write of one request PDU.
C9_NoDirCtrl == \A i \in DOMAIN tx_log : tx_log[i].op = "f_write"

\* a request has been written to the transport and its exchange completed
\* by a response
C9_Witness ==
    \E i \in DOMAIN cb_log : ~cb_log[i].is_timeout /\ Writes(cb_log[i].resp) # {}

\* ------------------------------------------------------------------------
\* C4: every accepted request gets its callback exactly once, callbacks come
\* in submission order, and while mb_mst_poll keeps being called every
\* accepted request is eventually completed.
\* ------------------------------------------------------------------------
Accepted(id) ==
    \E s \in 1..MAX_REQUEST : req_infos[s].valid /\ req_infos[s].request.resp = id

C4_AtMostOnceInOrder ==
    /\ \A id \in 1..MaxSubmits : Cardinality(Callbacks(id)) <= 1
    /\ \A i, j \in DOMAIN cb_log : i < j => cb_log[i].resp < cb_log[j].resp
    /\ \A id \in 1..MaxSubmits : ~(Accepted(id) /\ Callbacks(id) # {})

\* C4 as stated: period_ms >= 1 is all that is asked of the caller
C4_CompletedExactlyOnce ==
    /\ []C4_AtMostOnceInOrder
    /\ \A id \in 1..MaxSubmits :
          (Accepted(id) /\ U32Gt(period_ms, U32(0))) ~> (Callbacks(id) # {})

\* the elapsed-time counter of the slot passes its timeout before it wraps
NoWrap(info) ==
    /\ period_ms.hi < U16 \div 2
    /\ U32Gt(U32Add(info.to_timeout, period_ms), info.to_timeout)

\* the request is pending and neither it nor a request ahead of it can wrap
AcceptedNoWrap(id) ==
    /\ Accepted(id)
    /\ \A s \in 1..MAX_REQUEST :
          (req_infos[s].valid /\ req_infos[s].request.resp <= id) => NoWrap(req_infos[s])

\* C4 restricted to requests with period_ms < 2^31 and
\* timeout_ms + period_ms < 2^32, queued behind such requests only.
C4_CompletedExactlyOnceNoWrap ==
    /\ []C4_AtMostOnceInOrder
    /\ \A id \in 1..MaxSubmits :
          (AcceptedNoWrap(id) /\ U32Gt(period_ms, U32(0))) ~> (Callbacks(id) # {})

\* two requests completed, the first by timeout and the second by a response
C4_Witness ==
    /\ Len(cb_log) = 2
    /\ cb_log[1].is_timeout
    /\ ~cb_log[2].is_timeout
    /\ Writes(2) # {}

\* ------------------------------------------------------------------------
\* C10: when the bytes waiting for the receive step are a valid read
\* response (after bytes that cannot start a frame) and the head is a read
\* request in flight, the receive step pops the head, invokes its callback
\* once with the frame's payload, its byte count, err_code 0 and
\* is_timeout FALSE, clears the slot and increments the permit.
\* ------------------------------------------------------------------------
\* bytes of the RX ring from the parser's anchor on, then the transport's
RxPending ==
    [i \in 1..(rx_q.wr - msg.anchor) |->
        MemRead(rx_q.buf, BitAnd(msg.anchor + i - 1, rx_q.buf_size - 1))] \o uart_rx

ReadResponsePending ==
    /\ Fifo # <<>>
    /\ req_infos[Fifo[1]].repeat_times >= 1
    /\ req_infos[Fifo[1]].request.func = MODBUS_FUN_RD_REG_MUL
    /\ uart_rx # <<>>
    /\ \E k \in 0..Len(RxPending) :
          /\ \A i \in 1..k : RxPending[i] # SlaveAddr
          /\ SubSeq(RxPending, k + 1, Len(RxPending)) = ReadRespFrame

C10_ReadResponseDispatched ==
    ReadResponsePending =>
        LET slot == Fifo[1]
            h == master_read(Handle)
        IN  /\ h.cb_log = Append(cb_log,
                                 [resp |-> req_infos[slot].request.resp,
                                  data |-> ReadPayload,
                                  len |-> Len(ReadPayload),
                                  err_code |-> MODBUS_RESP_ERR_NONE,
                                  is_timeout |-> FALSE])
            /\ ~h.req_infos[slot].valid
            /\ queue_peek(h.req_info_q, h.req_info_q.wr - h.req_info_q.rd) = Tail(Fifo)
            /\ h.sem = (sem + 1) % U8
            /\ mb_mst_poll(Handle).cb_log = h.cb_log

\* a read response is waiting for the head in flight
C10_Witness == ReadResponsePending

\* ------------------------------------------------------------------------
\* C11: when the bytes waiting for the receive step are an exception frame
\* for the head in flight, the receive step invokes the head's callback once
\* with err_code equal to the frame's exception code, len 0 and is_timeout
\* FALSE, whatever was received before.
\* ------------------------------------------------------------------------
ExceptionCode == ExceptionFrame[3]

ExceptionPending ==
    /\ Fifo # <<>>
    /\ req_infos[Fifo[1]].repeat_times >= 1
    /\ uart_rx # <<>>
    /\ RxPending = ExceptionFrame

C11_ExceptionCallback ==
    ExceptionPending =>
        LET h == master_read(Handle)
        IN  /\ Len(h.cb_log) = Len(cb_log) + 1
            /\ h.cb_log[Len(h.cb_log)].resp = req_infos[Fifo[1]].request.resp
            /\ h.cb_log[Len(h.cb_log)].err_code = ExceptionCode
            /\ h.cb_log[Len(h.cb_log)].is_timeout = FALSE
            /\ h.cb_log[Len(h.cb_log)].len = 0

\* ------------------------------------------------------------------------
\* C12: every callback invoked with is_timeout = TRUE carries no data,
\* len 0 and err_code 0, whatever was received before.
\* ------------------------------------------------------------------------
C12_TimeoutCallback ==
    \A i \in DOMAIN cb_log :
        cb_log[i].is_timeout =>
            /\ cb_log[i].data = <<>>
            /\ cb_log[i].len = 0
            /\ cb_log[i].err_code = MODBUS_RESP_ERR_NONE

\* ------------------------------------------------------------------------
\* C13: every FIFO entry refers to a slot in use, no slot is referred to by
\* two FIFO entries, no free slot is referred to by a FIFO entry, and the
\* number of slots in use equals the FIFO length.
\* ------------------------------------------------------------------------
SlotsInUse == {s \in 1..MAX_REQUEST : req_infos[s].valid}

C13_PoolFifoConsistent ==
    LET fifo == Fifo
        used == SlotsInUse
    IN  /\ \A i \in DOMAIN fifo : fifo[i] \in used
        /\ \A i, j \in DOMAIN fifo : i # j => fifo[i] # fifo[j]
        /\ \A s \in (1..MAX_REQUEST) \ used : \A i \in DOMAIN fifo : fifo[i] # s
        /\ Cardinality(used) = Len(fifo)

\* the pool is full again after a completion: the slot freed first was
\* handed out again and is the FIFO tail
C13_Witness ==
    /\ Len(Fifo) = MAX_REQUEST
    /\ Fifo[MAX_REQUEST] = 1
    /\ cb_log # <<>>

\* ------------------------------------------------------------------------
\* C14: a completion, by a dispatched response in the receive step or by a
\* final timeout in the transmit step, removes exactly the FIFO head: the
\* FIFO becomes its tail, the head's slot is cleared and every other slot is
\* left as it was.
\* ------------------------------------------------------------------------
FifoOf(h) == queue_peek(h.req_info_q, h.req_info_q.wr - h.req_info_q.rd)

\* the step from handle a to handle b invoked a callback
Completes(a, b) == Len(b.cb_log) > Len(a.cb_log)

RemovedHead(a, b) ==
    /\ FifoOf(a) # <<>>
    /\ FifoOf(b) = Tail(FifoOf(a))
    /\ Len(b.cb_log) = Len(a.cb_log) + 1
    /\ b.req_infos = [a.req_infos EXCEPT ![FifoOf(a)[1]] = ZeroReqInfo]

C14_CompletionRemovesHead ==
    \E received \in {master_read(Handle)} :
    \E polled \in {master_write(received)} :
        /\ Completes(Handle, received) => RemovedHead(Handle, received)
        /\ Completes(received, polled) => RemovedHead(received, polled)

\* a response is about to complete the head while other requests are queued
C14_Witness ==
    /\ Len(Fifo) >= 2
    /\ Completes(Handle, master_read(Handle))

\* ------------------------------------------------------------------------
\* C15: every PDU written for a write request carries the register values
\* handed to mb_mst_pdu_request with that request, all of them and in
\* order, whatever else is queued.
\* ------------------------------------------------------------------------
\* the PDU of a write request with the given register values
WritePduOf(request, reg_data) ==
    WithCrc(<<request.slave_addr, request.func,
              GET_U8_HIGH_FROM_U16(request.reg_addr), GET_U8_LOW_FROM_U16(request.reg_addr),
              GET_U8_HIGH_FROM_U16(request.reg_len), GET_U8_LOW_FROM_U16(request.reg_len),
              (2 * request.reg_len) % U8>>
            \o [k \in 1..(2 * Len(reg_data)) |->
                   IF k % 2 = 1 THEN GET_U8_HIGH_FROM_U16(reg_data[(k + 1) \div 2])
                   ELSE GET_U8_LOW_FROM_U16(reg_data[k \div 2])])

C15_WritePduCarriesSubmitted ==
    \A i \in DOMAIN tx_log :
        tx_log[i].buf[2] = MODBUS_FUN_WR_REG_MUL =>
            \E a \in ValidArgs(tx_log[i].resp) :
                /\ a.request.func = MODBUS_FUN_WR_REG_MUL
                /\ tx_log[i].buf = WritePduOf(a.request, a.reg_data)

\* ------------------------------------------------------------------------
\* C16: a write request whose register values do not all fit into the free
\* space of the auxiliary write queue is rejected: the FIFO, the slots and
\* the auxiliary queue stay as they were.
\* ------------------------------------------------------------------------
C16_RejectsWhenNoRoom ==
    \A a \in ValidArgs(submits + 1) :
        (a.request.func = MODBUS_FUN_WR_REG_MUL /\ queue_remain_space(wr_q) < a.reg_len) =>
            LET h == mb_mst_pdu_request(Handle, a.request, a.reg_data, a.reg_len)
            IN  /\ h.req_info_q = req_info_q
                /\ h.req_infos = req_infos
                /\ h.wr_q = wr_q

\* ------------------------------------------------------------------------
\* C17: mb_mst_pdu_request with an invalid argument (register count out of
\* range for the function, timeout_ms = 0, or for a write a reg_len that
\* differs from request.reg_len, reg_len = 0 or no reg_data) leaves the
\* FIFO, the slots, the auxiliary write queue and the permit as they were.
\* ------------------------------------------------------------------------
C17_InvalidSubmitNoEffect ==
    \A a \in InvalidArgs(submits + 1) :
        \E h \in {mb_mst_pdu_request(Handle, a.request, a.reg_data, a.reg_len)} :
            /\ h.req_info_q = req_info_q
            /\ h.req_infos = req_infos
            /\ h.wr_q = wr_q
            /\ h.sem = sem

\* the second call was rejected while all but one slot were free and the
\* first request was pending
C17_Witness ==
    /\ submits = 2
    /\ cb_log = <<>>
    /\ Len(Fifo) = 1
    /\ Accepted(1)
    /\ ~is_queue_empty(wr_q)

\* ------------------------------------------------------------------------
\* C18: with all MAX_REQUEST slots in use a valid mb_mst_pdu_request
\* changes neither the FIFO nor the slots nor the auxiliary write queue;
\* with fewer requests pending it takes a free slot, stores the request in
\* it and appends it at the FIFO tail.
\* ------------------------------------------------------------------------
C18_SlotExhaustion ==
    \A a \in ValidArgs(submits + 1) :
        \E h \in {mb_mst_pdu_request(Handle, a.request, a.reg_data, a.reg_len)} :
        \E fifo \in {Fifo} :
        \E after \in {FifoOf(h)} :
            IF Cardinality(SlotsInUse) = MAX_REQUEST
            THEN /\ h.req_info_q = req_info_q
                 /\ h.req_infos = req_infos
                 /\ h.wr_q = wr_q
            ELSE Len(fifo) < MAX_REQUEST =>
                 /\ Len(after) = Len(fifo) + 1
                 /\ SubSeq(after, 1, Len(fifo)) = fifo
                 /\ ~req_infos[after[Len(after)]].valid
                 /\ h.req_infos[after[Len(after)]].valid
                 /\ h.req_infos[after[Len(after)]].request = a.request
                 /\ \A s \in SlotsInUse : h.req_infos[s] = req_infos[s]

\* the pool is full, the request accepted last is the FIFO tail and the
\* call after it was turned down
C18_Witness ==
    /\ Len(Fifo) = MAX_REQUEST
    /\ submits = 2
    /\ req_infos[Fifo[MAX_REQUEST]].request.resp = 1
    /\ ~Accepted(2)

\* ------------------------------------------------------------------------
\* Steps of the parser over the bytes of the next receive step
\* ------------------------------------------------------------------------
\* the iterations of the while loop of _recv_parser started on p, in order:
\* pre = parser before the iteration, c = its byte, post = parser after it
RECURSIVE ParserTrace(_, _)
ParserTrace(p, slave_addr) ==
    IF check_rx_queue_remain_data(p) = 0 THEN <<>>
    ELSE Then(ParserStep([msg |-> [p.msg EXCEPT !.forward = p.msg.forward + 1],
                          rx_q |-> p.rx_q],
                         get_rx_queue_remain_data(p), slave_addr), LAMBDA r :
              <<[pre |-> p, c |-> get_rx_queue_remain_data(p), post |-> r]>>
              \o (IF r.done THEN <<>>
                  ELSE ParserTrace([msg |-> r.msg, rx_q |-> r.rx_q], slave_addr)))

\* the receive step of the next poll is going to run the parser
ParserRuns ==
    /\ ~is_queue_empty(req_info_q)
    /\ uart_rx # <<>>
    /\ Len(uart_rx) <= MODBUS_FRAME_BYTES_MAX
    /\ Len(uart_rx) <= queue_remain_space(rx_q)

\* its iterations
NextParse ==
    ParserTrace([msg |-> msg, rx_q |-> queue_add(rx_q, uart_rx)],
                req_infos[HeadSlot(Handle)].request.slave_addr)

\* ------------------------------------------------------------------------
\* C19: rd <= anchor <= forward <= wr holds for the RX ring and the parser
\* cursors after every poll and after every iteration of the parser.
\* ------------------------------------------------------------------------
WindowOk(p) ==
    /\ p.rx_q.rd <= p.msg.anchor
    /\ p.msg.anchor <= p.msg.forward
    /\ p.msg.forward <= p.rx_q.wr

C19_ParserWindow ==
    /\ WindowOk([msg |-> msg, rx_q |-> rx_q])
    /\ ParserRuns =>
          LET trace == NextParse
          IN  /\ \A i \in DOMAIN trace : WindowOk(trace[i].post)
              /\ trace[Len(trace)].post.rx_q = master_read(Handle).rx_q

\* the parser has given up on a frame start and is inside the next frame
C19_Witness ==
    /\ msg.anchor > 0
    /\ msg.anchor < msg.forward
    /\ msg.forward = rx_q.wr
    /\ ParserRuns

\* ------------------------------------------------------------------------
\* C20: an iteration of the parser that gives up on the frame start
\* (address mismatch, unsupported function code, byte count above the
\* maximum, CRC mismatch) discards exactly one byte: anchor is the old
\* anchor plus 1, rd and forward equal the new anchor, the state is ADDR and
\* the parser goes on with the byte after the old anchor. An iteration that
\* accepts a frame moves anchor and rd to forward.
\* ------------------------------------------------------------------------
\* byte c makes the parser p give up on its frame start
ResyncCase(p, c, slave_addr) ==
    \/ p.msg.state = RX_STATE_ADDR /\ c # slave_addr
    \/ /\ p.msg.state = RX_STATE_FUNC
       /\ c \notin {MODBUS_FUN_RD_REG_MUL, MODBUS_FUN_WR_REG_MUL}
       /\ c < U8 \div 2
    \/ p.msg.state = RX_STATE_DATA_LEN /\ c > MAX_READ_REG_NUM * 2
    \/ /\ p.msg.state = RX_STATE_CRC
       /\ p.msg.pdu_in = MODBUS_CRC_BYTES_NUM - 1
       /\ COMBINE_U8_TO_U16(c, p.msg.recv_crc[1]) # p.msg.cal_crc

C20_ResyncDiscardsOneByte ==
    ParserRuns =>
        LET trace == NextParse
            slave_addr == req_infos[HeadSlot(Handle)].request.slave_addr
        IN  \A i \in DOMAIN trace :
                LET pre == trace[i].pre
                    post == trace[i].post
                IN  /\ ResyncCase(pre, trace[i].c, slave_addr) =>
                          /\ ~post.done
                          /\ post.msg.anchor = pre.msg.anchor + 1
                          /\ post.rx_q.rd = post.msg.anchor
                          /\ post.msg.forward = post.msg.anchor
                          /\ post.msg.state = RX_STATE_ADDR
                          /\ post.rx_q.wr = pre.rx_q.wr
                          /\ post.rx_q.buf = pre.rx_q.buf
                          /\ i < Len(trace)
                             => trace[i + 1].c =
                                   MemRead(pre.rx_q.buf,
                                           BitAnd(pre.msg.anchor + 1, pre.rx_q.buf_size - 1))
                    /\ post.done =>
                          /\ post.msg.forward = pre.msg.forward + 1
                          /\ post.msg.anchor = post.msg.forward
                          /\ post.rx_q.rd = post.msg.forward
                          /\ post.msg.state = RX_STATE_ADDR

\* the next receive step gives up on a frame with a wrong CRC, on a header
\* with an unsupported function code or an oversized byte count, and on the
\* bytes behind them, and then accepts a frame
C20_Witness ==
    /\ ParserRuns
    /\ \E i, j \in DOMAIN NextParse :
          /\ i < j
          /\ NextParse[i].pre.msg.state \in {RX_STATE_CRC, RX_STATE_FUNC, RX_STATE_DATA_LEN}
          /\ ResyncCase(NextParse[i].pre, NextParse[i].c, SlaveAddr)
          /\ NextParse[j].post.done

\* ------------------------------------------------------------------------
\* C21: when the bytes waiting for the receive step are junk (bytes holding
\* no whole frame, whatever their values) followed by one valid frame, and
\* a request is queued, the receive step emits that frame: exactly one more
\* callback, not a timeout, with the frame's exception code and payload, and
\* every waiting byte is consumed so that the frame cannot be emitted again.
\* ------------------------------------------------------------------------
\* the frames a slave can send
WellFormed == PeerAnswers \cup {EmptyReadFrame}

\* s holds a whole frame somewhere
HoldsFrame(s) ==
    \E f \in WellFormed :
        \E k \in 0..(Len(s) - Len(f)) : SubSeq(s, k + 1, k + Len(f)) = f

\* the waiting bytes are junk followed by frame f
JunkThenFrame(f) ==
    /\ ParserRuns
    /\ Len(RxPending) >= Len(f)
    /\ SubSeq(RxPending, Len(RxPending) - Len(f) + 1, Len(RxPending)) = f
    /\ ~HoldsFrame(SubSeq(RxPending, 1, Len(RxPending) - Len(f)))

\* the receive step from h to r has emitted frame f, once
Emitted(h, r, f) ==
    /\ Len(r.cb_log) = Len(h.cb_log) + 1
    /\ ~r.cb_log[Len(r.cb_log)].is_timeout
    /\ r.cb_log[Len(r.cb_log)].err_code =
          (IF f = ExceptionFrame THEN ExceptionCode ELSE MODBUS_RESP_ERR_NONE)
    /\ f = ReadRespFrame => r.cb_log[Len(r.cb_log)].data = ReadPayload
    /\ r.rx_q.rd = r.rx_q.wr
    /\ r.msg.state = RX_STATE_ADDR

C21_JunkThenFrameEmitted ==
    \A f \in PeerAnswers :
        JunkThenFrame(f) =>
            \E r \in {master_read(Handle)} : Emitted(Handle, r, f)

\* ------------------------------------------------------------------------
\* C22: when the parser is in state ADDR and the bytes waiting for the
\* receive step are exactly one well-formed frame (read response with byte
\* count 0 or more, write acknowledgement, exception), the receive step
\* emits exactly one frame whose payload, payload length and exception code
\* are those of the frame, and consumes exactly the frame's bytes.
\* ------------------------------------------------------------------------
\* payload and exception code a frame carries
PayloadOf(f) ==
    IF f[2] = MODBUS_FUN_RD_REG_MUL THEN SubSeq(f, 4, 3 + f[3]) ELSE <<>>

ErrCodeOf(f) == IF BitAnd(f[2], 128) # 0 THEN f[3] ELSE MODBUS_RESP_ERR_NONE

\* the receive step from h to r has emitted a frame equal to f
RoundTrip(h, r, f) ==
    /\ Len(r.cb_log) = Len(h.cb_log) + 1
    /\ ~r.cb_log[Len(r.cb_log)].is_timeout
    /\ r.cb_log[Len(r.cb_log)].len = Len(PayloadOf(f))
    /\ SubSeq(r.cb_log[Len(r.cb_log)].data, 1, Len(PayloadOf(f))) = PayloadOf(f)
    /\ r.cb_log[Len(r.cb_log)].err_code = ErrCodeOf(f)
    /\ r.rx_q.rd = h.rx_q.rd + Len(f)
    /\ r.msg.anchor = r.rx_q.rd
    /\ r.msg.forward = r.rx_q.rd

C22_FrameRoundTrip ==
    \A f \in WellFormed :
        (ParserRuns /\ msg.state = RX_STATE_ADDR /\ RxPending = f) =>
            \E r \in {master_read(Handle)} : RoundTrip(Handle, r, f)

\* ------------------------------------------------------------------------
\* C23: with enough requests queued to take every frame, the receive steps
\* emit the same frames with the same contents and leave the parser and the
\* RX ring in the same final state whether the bytes waiting on the
\* transport are read in one transport read, in two reads split at any
\* position, or one byte per read.
\* ------------------------------------------------------------------------
\* master_read when f_read returns the given bytes
Receive(h, bytes) == master_read([h EXCEPT !.uart_rx = bytes])

\* one master_read per byte
RECURSIVE ReceiveEach(_, _)
ReceiveEach(h, bytes) ==
    IF bytes = <<>> THEN h
    ELSE Then(Receive(h, <<Head(bytes)>>), LAMBDA r : ReceiveEach(r, Tail(bytes)))

SameOutcome(a, b) ==
    /\ a.cb_log = b.cb_log
    /\ a.msg = b.msg
    /\ a.rx_q = b.rx_q

C23_SplitIndependent ==
    (ParserRuns /\ Len(Fifo) >= 2) =>
        \E whole \in {Receive(Handle, uart_rx)} :
            /\ SameOutcome(whole, ReceiveEach(Handle, uart_rx))
            /\ \A k \in 1..(Len(uart_rx) - 1) :
                  SameOutcome(whole,
                              Receive(Receive(Handle, SubSeq(uart_rx, 1, k)),
                                      SubSeq(uart_rx, k + 1, Len(uart_rx))))

\* ------------------------------------------------------------------------
\* C24: in the build as shipped, for the head of the FIFO and the next tick,
\* when the receive step of that tick does not complete the head: a tick
\* that transmits the head leaves its elapsed time at period_ms and declares
\* no timeout; a tick with the head in flight declares the timeout (callback
\* with is_timeout, head popped) exactly when elapsed time plus period_ms
\* exceeds timeout_ms, and otherwise only adds period_ms; so a head
\* transmitted on the previous tick with timeout_ms < period_ms is timed
\* out on this tick.
\* ------------------------------------------------------------------------
\* the transmit step from a to b has written the head
Transmits(a, b) == Len(b.tx_log) = Len(a.tx_log) + 1

\* the transmit step from a to b has declared the timeout of the head
TimeoutDeclared(a, b) ==
    /\ b.cb_log = Append(a.cb_log, b.cb_log[Len(b.cb_log)])
    /\ b.cb_log[Len(b.cb_log)].is_timeout
    /\ b.cb_log[Len(b.cb_log)].resp = a.req_infos[HeadSlot(a)].request.resp
    /\ FifoOf(b) = Tail(FifoOf(a))
    /\ b.tx_log = a.tx_log

\* the head of the FIFO is in flight: written, and its time is running
InFlight(info) == info.repeat_times >= 1 /\ info.cur_ctr # U32(0)

C24_TimeoutAccounting ==
    (Fifo # <<>> /\ no_retries) =>
        \E received \in {master_read(Handle)} :
            FifoOf(received) = Fifo =>
                \E polled \in {master_write(received)} :
                    LET slot == Fifo[1]
                        info == req_infos[slot]
                        elapsed == U32Add(info.cur_ctr, period_ms)
                    IN  /\ Transmits(received, polled) =>
                            /\ info.cur_ctr = U32(0)
                            /\ polled.req_infos[slot].cur_ctr = period_ms
                            /\ polled.cb_log = received.cb_log
                            /\ FifoOf(polled) = Fifo
                        /\ (InFlight(info) /\ U32Gt(elapsed, info.to_timeout)) =>
                            TimeoutDeclared(received, polled)
                        /\ (InFlight(info) /\ ~U32Gt(elapsed, info.to_timeout)) =>
                            /\ polled.req_infos[slot].cur_ctr = elapsed
                            /\ polled.cb_log = received.cb_log
                            /\ polled.tx_log = received.tx_log
                            /\ FifoOf(polled) = Fifo
                        /\ (InFlight(info) /\ info.cur_ctr = period_ms
                               /\ U32Gt(period_ms, info.to_timeout)) =>
                            TimeoutDeclared(received, polled)

\* the head was transmitted on the previous tick with a timeout below the
\* period and no response is on the way
C24_Witness ==
    /\ Fifo # <<>>
    /\ no_retries
    /\ InFlight(req_infos[Fifo[1]])
    /\ req_infos[Fifo[1]].cur_ctr = period_ms
    /\ U32Gt(period_ms, req_infos[Fifo[1]].to_timeout)
    /\ uart_rx = <<>>
    /\ tx_log # <<>>

\* ------------------------------------------------------------------------
\* C25: when the head of the FIFO has been written and the transport holds
\* exactly one valid response to it (a read response or an exception frame,
\* delivered after the write), the receive step completes the head with
\* that response, whatever bytes were received earlier.
\* ------------------------------------------------------------------------
\* the one response f to the written head is waiting on the transport
ResponseDelivered(f) ==
    /\ ParserRuns
    /\ Writes(req_infos[Fifo[1]].request.resp) # {}
    /\ uart_rx = f

C25_CompletesAfterEarlierBytes ==
    \A f \in {ReadRespFrame, ExceptionFrame} :
        ResponseDelivered(f) =>
            \E r \in {master_read(Handle)} :
                /\ Emitted(Handle, r, f)
                /\ r.cb_log[Len(r.cb_log)].resp = req_infos[Fifo[1]].request.resp
                /\ FifoOf(r) = Tail(Fifo)

\* ------------------------------------------------------------------------
\* C26: when a request has been written and the bytes waiting for the
\* receive step are a frame with a wrong CRC or a read-response header with
\* a byte count above the maximum, the receive step invokes no callback,
\* discards the bytes and leaves the parser in state ADDR; and when nothing
\* else is received, the request is eventually reported through its
\* callback with is_timeout TRUE, poll being called every period.
\* ------------------------------------------------------------------------
OversizedHeader == <<SlaveAddr, MODBUS_FUN_RD_REG_MUL, 2 * MAX_READ_REG_NUM + 1>>

RejectedFrames == {BadCrcFrame, OversizedHeader}

\* a frame to reject is waiting while request id is in flight
RejectPending(id) ==
    /\ ParserRuns
    /\ req_infos[Fifo[1]].request.resp = id
    /\ Writes(id) # {}
    /\ RxPending \in RejectedFrames

\* the callbacks of the two requests of InitRx
RxIds == {Queued[2].req_infos[s].request.resp : s \in 1..2}

TimedOut(id) == \E i \in Callbacks(id) : cb_log[i].is_timeout

C26_RejectedSilently ==
    \A id \in RxIds :
        RejectPending(id) =>
            \E r \in {master_read(Handle)} :
                /\ r.cb_log = cb_log
                /\ r.msg.state = RX_STATE_ADDR
                /\ r.rx_q.rd = r.rx_q.wr
                /\ r.msg.anchor = r.rx_q.wr
                /\ FifoOf(r) = Fifo

C26_RejectedThenTimeout ==
    /\ []C26_RejectedSilently
    /\ \A id \in RxIds :
          (RejectPending(id) /\ peer_sends = MaxChunks) ~> TimedOut(id)

\* a frame with a wrong CRC was received and discarded while a request was
\* in flight, and that request has been reported by its timeout callback
C26_Witness ==
    /\ peer_sends = 1
    /\ rx_q.wr = Len(BadCrcFrame)
    /\ rx_q.rd = rx_q.wr
    /\ [i \in 1..rx_q.wr |-> MemRead(rx_q.buf, i - 1)] = BadCrcFrame
    /\ msg.state = RX_STATE_ADDR
    /\ \E id \in RxIds : Writes(id) # {} /\ TimedOut(id)
    /\ \A i \in DOMAIN cb_log : cb_log[i].is_timeout

\* ------------------------------------------------------------------------
\* C27: mb_mst_init returns a handle with permit 1, an empty request FIFO,
\* 32 free slots, the parser in state ADDR and three initialised ring
\* queues whenever opts and its init, read and write callbacks are non-null,
\* the allocation succeeds and f_init() returns true; it returns NULL and
\* keeps no storage when opts or a callback is null or f_init() returns
\* false.
\* ------------------------------------------------------------------------
IsPowerOfTwo(n) == n > 0 /\ BitAnd(n, n - 1) = 0

\* queue_init with its result: [ret, q]
queue_init_ret(buf_size) ==
    [ret |-> IsPowerOfTwo(buf_size), q |-> queue_init(buf_size)]

\* what the caller passes: which pointers are non-null, what f_init() returns
OptsSet ==
    [present : BOOLEAN, f_init : BOOLEAN, f_read : BOOLEAN, f_write : BOOLEAN,
     f_init_ret : BOOLEAN]

\* mb_mst_init with its result: ret = a handle is returned (not NULL),
\* kept = blocks of storage still allocated on return, h = the handle
mb_mst_init_ret(opts, alloc_ok, period) ==
    LET none == [ret |-> FALSE, kept |-> 0, h |-> <<>>]
        rx == queue_init_ret(RX_BUFF_SIZE)
        wr == queue_init_ret(MAX_WRITE_REG_NUM)
        rq == queue_init_ret(MAX_REQUEST)
    IN  IF ~opts.present \/ ~opts.f_init \/ ~opts.f_read \/ ~opts.f_write THEN none
        ELSE IF ~alloc_ok THEN none
        ELSE IF ~rx.ret THEN none
        ELSE IF ~wr.ret THEN none
        ELSE IF ~rq.ret THEN none
        ELSE IF ~opts.f_init_ret THEN none
        ELSE [ret |-> TRUE, kept |-> 1,
              h |-> [period_ms |-> period, sem |-> 1,
                     req_infos |-> [i \in 1..MAX_REQUEST |-> ZeroReqInfo],
                     req_info_q |-> rq.q, wr_q |-> wr.q, rx_q |-> rx.q,
                     msg |-> ZeroMsg]]

C27_InitReturnsHandle ==
    \A opts \in OptsSet, alloc_ok \in BOOLEAN :
        \E r \in {mb_mst_init_ret(opts, alloc_ok, period_ms)} :
            /\ (opts.present /\ opts.f_init /\ opts.f_read /\ opts.f_write
                   /\ alloc_ok /\ opts.f_init_ret) =>
                  /\ r.ret
                  /\ r.h.sem = 1
                  /\ is_queue_empty(r.h.req_info_q)
                  /\ \A i \in 1..MAX_REQUEST : ~r.h.req_infos[i].valid
                  /\ r.h.msg.state = RX_STATE_ADDR
                  /\ r.h.rx_q = queue_init(RX_BUFF_SIZE)
                  /\ r.h.wr_q = queue_init(MAX_WRITE_REG_NUM)
                  /\ r.h.req_info_q = queue_init(MAX_REQUEST)
            /\ (~opts.present \/ ~opts.f_init \/ ~opts.f_read \/ ~opts.f_write
                   \/ ~opts.f_init_ret) =>
                  /\ ~r.ret
                  /\ r.kept = 0

\* ------------------------------------------------------------------------
\* C28: 0 <= wr - rd <= capacity holds for the three ring queues of the
\* handle in every reachable state, after every iteration of the parser
\* (which writes rd of the RX ring itself when it gives up on a byte and
\* when it accepts a frame), after a get or an advance_wr of any length and
\* after an add of 0 or 1 units applied to them, and after an add of more
\* units than there is room for applied to the request FIFO; peek leaves
\* the queue as it is.
\* ------------------------------------------------------------------------
QueueOk(q) == 0 <= q.wr - q.rd /\ q.wr - q.rd <= q.buf_size

\* lengths on both sides of what a queue holds and of what it has room for
Lengths(q) ==
    {0, 1, q.wr - q.rd, q.wr - q.rd + 1, queue_remain_space(q),
     queue_remain_space(q) + 1}

C28_OccupancyBounded ==
    /\ LET Bounded(q) ==
              /\ QueueOk(q)
              /\ \A k \in Lengths(q) :
                    /\ QueueOk(queue_get(q, k))
                    /\ QueueOk(queue_advance_wr(q, k))
              /\ \A k \in {0, 1} : QueueOk(queue_add(q, [i \in 1..k |-> 1]))
       IN  Bounded(rx_q) /\ Bounded(wr_q) /\ Bounded(req_info_q)
    /\ QueueOk(queue_add(req_info_q,
                         [i \in 1..(queue_remain_space(req_info_q) + 1) |-> 1]))
    /\ ParserRuns =>
          \E steps \in {NextParse} :
              \A i \in DOMAIN steps : QueueOk(steps[i].post.rx_q)

\* the parser has moved rd of the RX ring on its own, accepting a frame,
\* and bytes received behind that frame are waiting in the ring
C28_Witness ==
    /\ rx_q.rd > 0
    /\ rx_q.rd < rx_q.wr
    /\ msg.anchor = rx_q.rd
    /\ cb_log # <<>>
    /\ ~cb_log[Len(cb_log)].is_timeout

\* ------------------------------------------------------------------------
\* C29: for each ring queue of the handle, in every reachable state: an add
\* copies min(k, free space) units and moves wr by that count; the units
\* get and peek hand out are the first min(k, occupancy) units of what was
\* added, oldest first, also when the copy crosses the physical end of the
\* buffer; get moves rd by the count and nothing else; peek changes
\* nothing, so that a get after it hands out the same units.
\* ------------------------------------------------------------------------
\* three units never stored by the engine
ProbeUnits == <<201, 202, 203>>

RoundTripOk(q, src) ==
    LET n == Min(Len(src), queue_remain_space(q))
        held == queue_peek(q, q.wr - q.rd)
    IN  \E a \in {queue_add(q, src)} :
            /\ queue_add_count(q, src) = n
            /\ a.wr = q.wr + n
            /\ a.rd = q.rd
            /\ queue_peek(a, a.wr - a.rd) = held \o SubSeq(src, 1, n)
            /\ \A k \in {0, 1, Len(held) + n, Len(held) + n + 1} :
                  \E g \in {queue_get(a, k)} :
                      LET m == Min(k, Len(held) + n)
                      IN  /\ queue_peek(a, k) = SubSeq(held \o SubSeq(src, 1, n), 1, m)
                          /\ g.rd = a.rd + m
                          /\ g.wr = a.wr
                          /\ g.buf = a.buf
                          /\ queue_peek(g, g.wr - g.rd) =
                                SubSeq(held \o SubSeq(src, 1, n), m + 1, Len(held) + n)

C29_QueueRoundTripPowerOfTwo ==
    \A q \in {req_info_q, wr_q, rx_q} :
        IsPowerOfTwo(q.buf_size) => RoundTripOk(q, ProbeUnits)

\* ------------------------------------------------------------------------
\* C30: with the DMA channel and the receive-timeout interrupt as producer
\* (queue_advance_wr) and rs485_read as consumer (queue_get) of the same
\* ring queue, interleaved in every way and without a lock: the consumer
\* has obtained exactly the first bytes of the line, in order; the queue
\* holds the bytes that follow them, in order; no byte is published before
\* the channel has stored it; once the interrupt has run no stored byte is
\* missing from the queue; and 0 <= wr - rd <= capacity.
\* ------------------------------------------------------------------------
C30_SpscSafe ==
    LET q == rs485.rx_queue
    IN  /\ QueueOk(q)
        /\ rs485.read_log = [i \in 1..Len(rs485.read_log) |-> LineByte(i - 1)]
        /\ Len(rs485.read_log) = q.rd
        /\ q.wr <= rs485.dma_cnt
        /\ queue_peek(q, q.wr - q.rd) = [i \in 1..(q.wr - q.rd) |-> LineByte(q.rd + i - 1)]
        /\ ~rs485.rt_flag => q.wr = rs485.dma_cnt

\* ------------------------------------------------------------------------
\* C38: a poll on a handle whose request FIFO is empty changes nothing: the
\* bytes the transport holds stay unread, nothing is written to the
\* transport, no callback is invoked, and the permit, the request slots,
\* the three queues and the parser fields are as before.
\* ------------------------------------------------------------------------
C38_IdlePollNoEffect ==
    Fifo = <<>> => mb_mst_poll(Handle) = Handle

\* the FIFO is empty while the transport holds bytes, the RX ring holds
\* bytes left from before and the parser is in the middle of a frame
C38_Witness ==
    /\ Fifo = <<>>
    /\ uart_rx # <<>>
    /\ rx_q.wr > rx_q.rd
    /\ msg.state # RX_STATE_ADDR

\* ------------------------------------------------------------------------
\* C33: when the head of the FIFO is in flight, the poll that comes next is
\* the one at which its elapsed time exceeds its timeout, and the bytes
\* pending for the receive step of that poll are a valid response to it,
\* the poll completes the head with the response: the one callback invoked
\* for the request has is_timeout FALSE and the request leaves the FIFO.
\* No request ever has both a response callback and a timeout callback.
\* ------------------------------------------------------------------------
\* frames that answer a request
ResponsesTo(request) ==
    IF request.func = MODBUS_FUN_RD_REG_MUL
    THEN {ReadRespFrame, ExceptionFrame}
    ELSE {WriteAckFrame}

\* the next poll is the one at which the head in flight times out
TimeoutDue ==
    /\ Fifo # <<>>
    /\ InFlight(req_infos[Fifo[1]])
    /\ U32Gt(U32Add(req_infos[Fifo[1]].cur_ctr, period_ms), req_infos[Fifo[1]].to_timeout)

\* ... and a response to the head has arrived in time for it
ResponseInTime ==
    /\ TimeoutDue
    /\ uart_rx # <<>>
    /\ RxPending \in ResponsesTo(req_infos[Fifo[1]].request)

C33_ReceiveBeforeTransmit ==
    /\ ResponseInTime =>
          \E polled \in {mb_mst_poll(Handle)} :
              LET id == req_infos[Fifo[1]].request.resp
                  new == {i \in DOMAIN polled.cb_log :
                             i > Len(cb_log) /\ polled.cb_log[i].resp = id}
              IN  /\ new = {Len(cb_log) + 1}
                  /\ ~polled.cb_log[Len(cb_log) + 1].is_timeout
                  /\ ~polled.req_infos[Fifo[1]].valid
                  /\ Fifo[1] \notin {FifoOf(polled)[k] : k \in DOMAIN FifoOf(polled)}
    /\ \A i, j \in DOMAIN cb_log :
          (cb_log[i].resp = cb_log[j].resp /\ ~cb_log[i].is_timeout) => ~cb_log[j].is_timeout

\* the response has arrived on the last poll before the timeout, in the
\* shipped build, for a request that was written
C33_Witness ==
    /\ ResponseInTime
    /\ no_retries
    /\ Writes(req_infos[Fifo[1]].request.resp) # {}

\* ------------------------------------------------------------------------
\* C34: in every reachable state the auxiliary write queue holds as many
\* values as the slots in the FIFO have stored in reg_len together, and
\* its contents are the register values of the queued requests, in FIFO
\* order, so that the values at its front are those of the FIFO head.
\* ------------------------------------------------------------------------
\* the register values the request of a slot was submitted with
BlockOf(info) ==
    IF info.request.func # MODBUS_FUN_WR_REG_MUL THEN <<>>
    ELSE (CHOOSE a \in ValidArgs(info.request.resp) : a.request = info.request).reg_data

RECURSIVE StoredRegLen(_)
StoredRegLen(fifo) ==
    IF fifo = <<>> THEN 0
    ELSE req_infos[Head(fifo)].reg_len + StoredRegLen(Tail(fifo))

RECURSIVE Blocks(_)
Blocks(fifo) ==
    IF fifo = <<>> THEN <<>>
    ELSE BlockOf(req_infos[Head(fifo)]) \o Blocks(Tail(fifo))

\* the occupancy half of C34
C34_OccupancyAligned ==
    wr_q.wr - wr_q.rd = StoredRegLen(Fifo)

C34_WriteQueueAligned ==
    /\ wr_q.wr - wr_q.rd = StoredRegLen(Fifo)
    /\ queue_peek(wr_q, wr_q.wr - wr_q.rd) = Blocks(Fifo)

\* ------------------------------------------------------------------------
\* C35: in every reachable state with a pending request and bytes in the
\* RX ring, a receive step can still take bytes from the transport into
\* the ring and run the parser over what the ring holds: there is a read
\* that master_read does not turn away.
\* ------------------------------------------------------------------------
\* what the transport may return to the next f_read
ProbeReads == {<<SlaveAddr>>, <<255>>, ExceptionFrame, ReadRespFrame}

\* master_read turns the read away: the ring and the parser stay as they are
TurnedAway(bytes) ==
    \E r \in {master_read([Handle EXCEPT !.uart_rx = bytes])} :
        /\ r.rx_q = rx_q
        /\ r.msg = msg
        /\ r.cb_log = cb_log

C35_RingNeverStuck ==
    (Fifo # <<>> /\ rx_q.wr > rx_q.rd) =>
        \E bytes \in ProbeReads : ~TurnedAway(bytes)

\* ------------------------------------------------------------------------
\* C36: when the receive step invokes the head's callback with is_timeout
\* FALSE for a frame, the frame is of the head's kind: function byte 0x03
\* or 0x83 for a read request, 0x10 or 0x90 for a write request, and a
\* write acknowledgement carries the request's register address and count.
\* ------------------------------------------------------------------------
\* the frame f is a response to a request of this kind
KindMatches(request, f) ==
    IF request.func = MODBUS_FUN_RD_REG_MUL
    THEN f[2] \in {MODBUS_FUN_RD_REG_MUL, MODBUS_FUN_RD_REG_MUL + 128}
    ELSE /\ f[2] \in {MODBUS_FUN_WR_REG_MUL, MODBUS_FUN_WR_REG_MUL + 128}
         /\ f[2] = MODBUS_FUN_WR_REG_MUL =>
               /\ COMBINE_U8_TO_U16(f[3], f[4]) = request.reg_addr
               /\ COMBINE_U8_TO_U16(f[5], f[6]) = request.reg_len

C36_ResponseMatchesKind ==
    \A f \in PeerAnswers :
        (Fifo # <<>> /\ uart_rx # <<>> /\ RxPending = f) =>
            \E r \in {master_read(Handle)} :
                (Len(r.cb_log) > Len(cb_log) /\ ~r.cb_log[Len(r.cb_log)].is_timeout) =>
                    KindMatches(req_infos[Fifo[1]].request, f)

\* ------------------------------------------------------------------------
\* A line that leaves the parser inside a frame: the head of a read response
\* of the largest size and the head of the response to the queued read after
\* a junk byte
\* ------------------------------------------------------------------------
HeadChunks ==
    {<<SlaveAddr, MODBUS_FUN_RD_REG_MUL, 2 * MAX_READ_REG_NUM>>,
     <<255>> \o SubSeq(ReadRespFrame, 1, 4)}

PeerHead ==
    /\ peer_sends < MaxChunks
    /\ \E chunk \in HeadChunks : uart_rx' = uart_rx \o chunk
    /\ peer_sends' = peer_sends + 1
    /\ UNCHANGED <<shell, syslog, slave, rs485, no_retries, period_ms, sem, req_infos,
                   req_info_q, wr_q, rx_q, msg, tx_log, cb_log, submits>>

NextHead == Poll \/ PeerHead

SpecHead == InitRx /\ [][NextHead]_vars

\* ------------------------------------------------------------------------
\* C37: whatever bytes arrive, every iteration of the parser that stores a
\* byte in r_data does so at an index below MAX_READ_REG_NUM * 2 and every
\* iteration that stores a byte in recv_crc at index 0 or 1; the PDU of
\* every request that mb_mst_pdu_request accepts, and every buffer handed
\* to f_write, is at most MODBUS_FRAME_BYTES_MAX bytes long.
\* ------------------------------------------------------------------------
\* the index the next iteration writes at is inside the array
WriteInBounds(m) ==
    /\ m.state = RX_STATE_DATA => m.pdu_in < MAX_READ_REG_NUM * 2
    /\ m.state = RX_STATE_CRC => m.pdu_in < MODBUS_CRC_BYTES_NUM

\* one iteration of the while loop of _recv_parser; ok records whether all
\* writes so far were in bounds
ParserIter(x, slave_addr) ==
    IF x.done \/ check_rx_queue_remain_data(x) = 0 THEN x
    ELSE Then(ParserStep([msg |-> [x.msg EXCEPT !.forward = x.msg.forward + 1],
                          rx_q |-> x.rx_q],
                         get_rx_queue_remain_data(x), slave_addr), LAMBDA r :
              [msg |-> r.msg, rx_q |-> r.rx_q, done |-> r.done,
               ok |-> x.ok /\ WriteInBounds(x.msg)])

\* at most n iterations, until the loop ends
RECURSIVE ParserRun(_, _, _)
ParserRun(x, n, slave_addr) ==
    IF x.done \/ check_rx_queue_remain_data(x) = 0 \/ n = 0 THEN x
    ELSE IF n = 1 THEN ParserIter(x, slave_addr)
    ELSE Then(ParserRun(x, n \div 2, slave_addr), LAMBDA y :
              ParserRun(y, n - (n \div 2), slave_addr))

\* a read response of the largest size, a header that announces one byte
\* more followed by junk, and an empty read response before a write ack
MaxReadFrame ==
    WithCrc(<<SlaveAddr, MODBUS_FUN_RD_REG_MUL, 2 * MAX_READ_REG_NUM>>
            \o [i \in 1..(2 * MAX_READ_REG_NUM) |-> (i % 7) + 1])
ProbeBursts ==
    {MaxReadFrame,
     <<SlaveAddr, MODBUS_FUN_RD_REG_MUL, 2 * MAX_READ_REG_NUM + 1>>
         \o [i \in 1..(2 * MAX_READ_REG_NUM + 2) |-> 255],
     EmptyReadFrame \o WriteAckFrame}

\* the parser run by a receive step that reads bytes while the ring has room
ParsedInBounds(bytes) ==
    (Fifo # <<>> /\ Len(bytes) <= queue_remain_space(rx_q)) =>
        \E q \in {queue_add(rx_q, bytes)} :
            ParserRun([msg |-> msg, rx_q |-> q, done |-> FALSE, ok |-> TRUE],
                      RX_BUFF_SIZE * MODBUS_FRAME_BYTES_MAX,
                      req_infos[Fifo[1]].request.slave_addr).ok

\* the slot a submit has queued, 0 when the submit was turned away
QueuedSlot(h) ==
    IF FifoOf(h) = Fifo THEN 0 ELSE FifoOf(h)[Len(FifoOf(h))]

C37_BufferBounds ==
    /\ \A bytes \in ProbeBursts \cup {uart_rx} : ParsedInBounds(bytes)
    /\ \A i \in DOMAIN tx_log : Len(tx_log[i].buf) <= MODBUS_FRAME_BYTES_MAX
    /\ \A a \in ValidArgs(submits + 1) \cup InvalidArgs(submits + 1) :
          \E h \in {mb_mst_pdu_request(Handle, a.request, a.reg_data, a.reg_len)} :
              QueuedSlot(h) # 0 =>
                  Len(RequestPdu(h, h.req_infos[QueuedSlot(h)])) <= MODBUS_FRAME_BYTES_MAX

\* with the parser inside the data of a frame and a request in flight, a
\* largest read response is parsed up to its last data byte, and a request
\* with a PDU of 255 bytes is accepted
C37_Witness ==
    /\ Fifo # <<>>
    /\ peer_sends > 0 /\ msg.state = RX_STATE_DATA
    /\ Len(MaxReadFrame) <= queue_remain_space(rx_q)
    /\ \E x \in {ParserRun([msg |-> msg, rx_q |-> queue_add(rx_q, MaxReadFrame),
                              done |-> FALSE, ok |-> TRUE],
                             RX_BUFF_SIZE * MODBUS_FRAME_BYTES_MAX,
                             req_infos[Fifo[1]].request.slave_addr)} :
          x.done /\ x.ok /\ x.msg.r_data_len = MAX_READ_REG_NUM * 2
    /\ \E a \in ValidArgs(submits + 1) :
          \E h \in {mb_mst_pdu_request(Handle, a.request, a.reg_data, a.reg_len)} :
              /\ QueuedSlot(h) # 0
              /\ Len(RequestPdu(h, h.req_infos[QueuedSlot(h)])) = MODBUS_FRAME_BYTES_MAX - 1


\* ------------------------------------------------------------------------
\* Modbus slave engine: dispatch through the work table and response framing
\* ------------------------------------------------------------------------
ILLEGAL_FUNCTION == 1
ILLEGAL_DATA_ADDRESS == 2

\* dev_info_handler: serves a read from the registers and stores a write
\* into them; [ret, dev_info, out]
dev_info_handler(dev_info, func, reg, reg_num, p_in_out) ==
    CASE func = MODBUS_FUN_RD_REG_MUL ->
            [ret |-> MODBUS_RESP_ERR_NONE, dev_info |-> dev_info,
             out |-> [i \in 1..reg_num |-> dev_info[reg + i - 1]]]
      [] func = MODBUS_FUN_WR_REG_MUL ->
            [ret |-> MODBUS_RESP_ERR_NONE,
             dev_info |-> [r \in DOMAIN dev_info |->
                             IF reg <= r /\ r < reg + reg_num
                             THEN p_in_out[r - reg + 1] ELSE dev_info[r]],
             out |-> p_in_out]
      [] OTHER ->
            [ret |-> ILLEGAL_FUNCTION, dev_info |-> dev_info, out |-> p_in_out]

\* the entries whose [start, end) contains the first register only
work_find_first_only(table, reg, reg_num) ==
    {i \in DOMAIN table : table[i].start <= reg /\ reg < table[i].end}
\* the entries whose [start, end) contains the first and the last register
work_find(table, reg, reg_num) ==
    {i \in DOMAIN table :
        /\ table[i].start <= reg /\ reg < table[i].end
        /\ table[i].start <= reg + reg_num - 1 /\ reg + reg_num - 1 < table[i].end}

\* the three response frames
SlaveException(s, func, err) ==
    WithCrc(<<s.slave_addr, IF BitAnd(func, 128) # 0 THEN func ELSE func + 128, err>>)
RECURSIVE RegBytes(_)
RegBytes(regs) ==
    IF regs = <<>> THEN <<>>
    ELSE <<regs[1] \div 256, regs[1] % 256>> \o RegBytes(Tail(regs))
SlaveReadResp(s, req, out) ==
    WithCrc(<<s.slave_addr, MODBUS_FUN_RD_REG_MUL, req.reg_num * 2>> \o RegBytes(out))
SlaveWriteResp(s, req) ==
    WithCrc(<<s.slave_addr, MODBUS_FUN_WR_REG_MUL, req.reg \div 256, req.reg % 256,
              req.reg_num \div 256, req.reg_num % 256>>)

\* dispatch of one valid request PDU
mb_slv_dispatch(s, req) ==
    LET hit == work_find(s.work_table, req.reg, req.reg_num)
        n == Len(s.rx_log) + 1
        s1 == [s EXCEPT !.rx_log = Append(@, req)]
    IN  IF hit = {}
        THEN [s1 EXCEPT !.tx_log =
                 Append(@, SlaveException(s, req.func, ILLEGAL_DATA_ADDRESS))]
        ELSE LET entry == CHOOSE i \in hit : TRUE
                 r == dev_info_handler(s.dev_info, req.func, req.reg, req.reg_num, req.data)
                 s2 == [s1 EXCEPT !.dev_info = r.dev_info,
                                  !.calls = Append(@, [n |-> n, entry |-> entry,
                                                       func |-> req.func, reg |-> req.reg,
                                                       reg_num |-> req.reg_num])]
             IN  IF r.ret # MODBUS_RESP_ERR_NONE
                 THEN [s2 EXCEPT !.tx_log = Append(@, SlaveException(s, req.func, r.ret))]
                 ELSE IF req.func = MODBUS_FUN_RD_REG_MUL
                 THEN [s2 EXCEPT !.tx_log = Append(@, SlaveReadResp(s, req, r.out))]
                 ELSE [s2 EXCEPT !.tx_log = Append(@, SlaveWriteResp(s, req))]

\* requests addressed to the slave: at the start, across the border of the
\* two entries, at the end and beyond the end of the table
MaxRequests == 2
SlaveRequests ==
    {[func |-> f, reg |-> r, reg_num |-> k,
      data |-> IF f = MODBUS_FUN_WR_REG_MUL THEN SubSeq(<<43707, 52445>>, 1, k) ELSE <<>>] :
        f \in {MODBUS_FUN_RD_REG_MUL, MODBUS_FUN_WR_REG_MUL},
        r \in {0, 15, 16, DEV_INFO_END - 1, DEV_INFO_END}, k \in {1, 2}}

\* mb_slv_poll with one valid request in the transport
SlaveRequest ==
    /\ Len(slave.rx_log) < MaxRequests
    /\ \E req \in SlaveRequests : slave' = mb_slv_dispatch(slave, req)
    /\ UNCHANGED <<master_vars, rs485, syslog, shell>>

NextSlave == SlaveRequest

SpecSlave == InitRs485 /\ [][NextSlave]_vars

\* ------------------------------------------------------------------------
\* C31: the handler of a work-table entry is called for a request only if
\* that one entry's [start, end) contains the first and the last register
\* of the request; for a request whose range no single entry contains, no
\* handler is called and the response is the exception frame with code
\* ILLEGAL_DATA_ADDRESS.
\* ------------------------------------------------------------------------
ContainedIn(e, req) ==
    /\ e.start <= req.reg /\ req.reg < e.end
    /\ e.start <= req.reg + req.reg_num - 1 /\ req.reg + req.reg_num - 1 < e.end

C31_SlaveDispatch ==
    /\ Len(slave.tx_log) = Len(slave.rx_log)
    /\ \A c \in DOMAIN slave.calls :
          ContainedIn(slave.work_table[slave.calls[c].entry],
                      slave.rx_log[slave.calls[c].n])
    /\ \A n \in DOMAIN slave.rx_log :
          (\A i \in DOMAIN slave.work_table :
               ~ContainedIn(slave.work_table[i], slave.rx_log[n]))
          => /\ \A c \in DOMAIN slave.calls : slave.calls[c].n # n
             /\ slave.tx_log[n] =
                    SlaveException(slave, slave.rx_log[n].func, ILLEGAL_DATA_ADDRESS)

\* the read of two registers at 15 was answered by 06 83 02 and CRC without
\* a handler call, and another request reached its handler
C31_Witness ==
    \E n \in DOMAIN slave.rx_log :
        /\ slave.rx_log[n].func = MODBUS_FUN_RD_REG_MUL
        /\ slave.rx_log[n].reg = 15 /\ slave.rx_log[n].reg_num = 2
        /\ SubSeq(slave.tx_log[n], 1, 3) = <<SlaveAddr, 131, ILLEGAL_DATA_ADDRESS>>
        /\ Len(slave.calls) = 1 /\ slave.calls[1].n # n


\* ------------------------------------------------------------------------
\* Logger: origin_log, syslog_write, syslog_show
\* ------------------------------------------------------------------------

\* mask_idx for a mask with a bit set; for mask = 0 the function ends
\* without a return statement and the caller reads an indeterminate uint8_t
RECURSIVE mask_idx(_)
mask_idx(mask) ==
    IF mask % 2 = 1 THEN 0 ELSE (1 + mask_idx(mask \div 2)) % U8
mask_idx_values(mask) ==
    IF mask = 0 THEN 0..(U8 - 1) ELSE {mask_idx(mask)}

check_instance(s) == s.initialized /\ s.f_write

\* LOG_LEVEL_STR
LOG_LEVEL_STR(level) ==
    CASE level = LOG_LEVEL_DEBUG -> <<68, 69, 66, 85, 71>>
      [] level = LOG_LEVEL_INFO -> <<73, 78, 70, 79>>
      [] level = LOG_LEVEL_WARN -> <<87, 65, 82, 78>>
      [] level = LOG_LEVEL_ERROR -> <<69, 82, 82, 79, 82>>
      [] OTHER -> <<88, 88, 88, 88, 88>>

\* %-Ns: the string, filled with spaces on the right up to width n
PadRight(str, n) ==
    str \o [i \in 1..(IF Len(str) < n THEN n - Len(str) ELSE 0) |-> 32]
\* %d of a line number
RECURSIVE Decimal(_)
Decimal(n) ==
    IF n < 10 THEN <<48 + n>> ELSE Decimal(n \div 10) \o <<48 + (n % 10)>>
\* "[%-5s] [%-10s] [%-4d] : "
LogPrefix(level, module_name, line) ==
    <<91>> \o PadRight(LOG_LEVEL_STR(level), 5) \o <<93, 32, 91>>
    \o PadRight(module_name, 10) \o <<93, 32, 91>>
    \o PadRight(Decimal(line), 4) \o <<93, 32, 58, 32>>

\* syslog_write without the check of the free space
syslog_write_no_room_check(s, buf, len, mask) ==
    IF ~check_instance(s) THEN s
    ELSE LET q1 == queue_add(s.log_queue, LeBytes(len, s.size_t))
             q2 == queue_add(q1, LeBytes(mask, 4))
             q3 == queue_add(q2, SubSeq(buf, 1, len))
         IN  IF queue_add_count(s.log_queue, LeBytes(len, s.size_t)) # s.size_t
             THEN [s EXCEPT !.log_queue = q1]
             ELSE IF queue_add_count(q1, LeBytes(mask, 4)) # 4
             THEN [s EXCEPT !.log_queue = q2]
             ELSE [s EXCEPT !.log_queue = q3]
\* syslog_write (USE_TIME_STAMP 0): the instance after the call
syslog_write(s, buf, len, mask) ==
    IF ~check_instance(s) THEN s
    ELSE IF queue_remain_space(s.log_queue) < len + s.size_t + 4 THEN s
    ELSE LET q1 == queue_add(s.log_queue, LeBytes(len, s.size_t))
             q2 == queue_add(q1, LeBytes(mask, 4))
             q3 == queue_add(q2, SubSeq(buf, 1, len))
         IN  IF queue_add_count(s.log_queue, LeBytes(len, s.size_t)) # s.size_t
             THEN [s EXCEPT !.log_queue = q1]
             ELSE IF queue_add_count(q1, LeBytes(mask, 4)) # 4
             THEN [s EXCEPT !.log_queue = q2]
             ELSE [s EXCEPT !.log_queue = q3]

\* origin_log with the formatted text of format and arguments; module_idx
\* is the value read from mask_idx
origin_log(s, mask, level, line, text, module_idx) ==
    IF ~check_instance(s) THEN s
    ELSE IF level < s.current_log_level THEN s
    ELSE IF module_idx >= s.module_cnt THEN s
    ELSE LET prefix == LogPrefix(level, s.module_info[module_idx + 1], line)
             remaining_space == MAX_LOG_LENGTH - Len(prefix)
             len == IF remaining_space > 1
                    THEN IF Len(text) >= remaining_space
                         THEN MAX_LOG_LENGTH - 1
                         ELSE Len(prefix) + Len(text)
                    ELSE MAX_LOG_LENGTH - 1
             buffer == SubSeq(prefix \o text, 1, Min(MAX_LOG_LENGTH - 1, Len(prefix) + Len(text)))
         IN  syslog_write(s, buffer, len, mask)

\* syslog_show: [s, bad]; bad = the loop returned at a length header that
\* is 0 or larger than MAX_LOG_LENGTH
RECURSIVE syslog_show(_)
syslog_show(s) ==
    IF ~check_instance(s) \/ is_queue_empty(s.log_queue) THEN [s |-> s, bad |-> FALSE]
    ELSE LET flush_len == LeValue(queue_peek(s.log_queue, s.size_t))
             q1 == queue_get(s.log_queue, s.size_t)
             mask == LeValue(queue_peek(q1, 4))
             q2 == queue_get(q1, 4)
             tmp_buf == queue_peek(q2, flush_len)
             q3 == queue_get(q2, flush_len)
         IN  IF flush_len = 0 \/ flush_len > MAX_LOG_LENGTH
             THEN [s |-> [s EXCEPT !.log_queue = q1], bad |-> TRUE]
             ELSE syslog_show([s EXCEPT !.log_queue = q3,
                                        !.out = IF BitAnd(s.module_mask, mask) # 0
                                                THEN Append(@, tmp_buf) ELSE @])

\* log calls: two modules, a mask without module, mask 0, a level below the
\* current one, a short text and one longer than a record
MaxLogs == 3
LogCalls ==
    {[mask |-> 1, level |-> LOG_LEVEL_INFO, line |-> 7, text |-> <<104, 105>>],
     [mask |-> 1, level |-> LOG_LEVEL_ERROR, line |-> 1234,
      text |-> [i \in 1..(MAX_LOG_LENGTH + 44) |-> 120]],
     [mask |-> 2, level |-> LOG_LEVEL_WARN, line |-> 12345, text |-> <<111, 107>>],
     [mask |-> 4, level |-> LOG_LEVEL_INFO, line |-> 7, text |-> <<104, 105>>],
     [mask |-> 1, level |-> LOG_LEVEL_DEBUG, line |-> 7, text |-> <<104, 105>>],
     [mask |-> 0, level |-> LOG_LEVEL_INFO, line |-> 7, text |-> <<104, 105>>]}

\* the logger after n calls of log_e with a text longer than a record
RECURSIVE LogQueued(_, _)
LogQueued(size_t, n) ==
    IF n = 0 THEN LogStart(size_t)
    ELSE origin_log(LogQueued(size_t, n - 1), 1, LOG_LEVEL_ERROR, 1234,
                    [i \in 1..(MAX_LOG_LENGTH + 44) |-> 120], mask_idx(1))

\* one call of origin_log
LogCall ==
    /\ syslog.calls < MaxLogs
    /\ \E c \in LogCalls : \E module_idx \in mask_idx_values(c.mask) :
          syslog' = [origin_log(syslog, c.mask, c.level, c.line, c.text, module_idx)
                        EXCEPT !.calls = @ + 1]
    /\ UNCHANGED <<master_vars, rs485, slave, shell>>

\* syslog_task
syslog_task ==
    /\ syslog' = syslog_show(syslog).s
    /\ UNCHANGED <<master_vars, rs485, slave, shell>>

NextLog == LogCall \/ syslog_task

\* builds with a size_t of 4 and of 8 bytes, log queue empty or holding
\* TOTAL_FRAME_COUNT - 2 records of the largest size
InitLog ==
    /\ mb_mst_init(U32(1), TRUE)
    /\ rs485 = rs485_driver_init
    /\ slave = mb_slv_init(SlaveAddr, work_table)
    /\ \E size_t \in {4, 8}, n \in {0, TOTAL_FRAME_COUNT - 2} :
          syslog = LogQueued(size_t, n)
    /\ shell = simple_shell_init(4)

SpecLog == InitLog /\ [][NextLog]_vars

\* ------------------------------------------------------------------------
\* C39: after any sequence of log calls and syslog_task runs the log queue
\* holds a whole number of complete records [length | mask | payload], each
\* with 0 < length <= MAX_LOG_LENGTH, and syslog_show does not return at a
\* length header that is 0 or larger than MAX_LOG_LENGTH.
\* ------------------------------------------------------------------------
RECURSIVE WholeRecords(_, _)
WholeRecords(bytes, size_t) ==
    \/ bytes = <<>>
    \/ /\ Len(bytes) >= size_t + 4
       /\ \E len \in {LeValue(SubSeq(bytes, 1, size_t))} :
             /\ 0 < len /\ len <= MAX_LOG_LENGTH
             /\ Len(bytes) >= size_t + 4 + len
             /\ WholeRecords(SubSeq(bytes, size_t + 4 + len + 1, Len(bytes)), size_t)

C39_RecordsAtomic ==
    /\ WholeRecords(queue_peek(syslog.log_queue,
                               syslog.log_queue.wr - syslog.log_queue.rd), syslog.size_t)
    /\ ~syslog_show(syslog).bad

\* a record of the largest size was turned away by a queue that holds seven
\* of them and has room for a part of it
C39_Witness ==
    /\ syslog.calls > 0
    /\ syslog.log_queue.wr - syslog.log_queue.rd
          = (TOTAL_FRAME_COUNT - 1) * (MAX_LOG_LENGTH - 1 + syslog.size_t + 4)
    /\ origin_log(syslog, 1, LOG_LEVEL_ERROR, 1234,
                  [i \in 1..MAX_LOG_LENGTH |-> 120], mask_idx(1)) = syslog
    /\ queue_remain_space(syslog.log_queue) > syslog.size_t + 4

\* ------------------------------------------------------------------------
\* C32: a log call with mask = 0 adds nothing to the log queue and hands
\* nothing to f_write, whatever value the call reads as module index.
\* ------------------------------------------------------------------------
C32_MaskZeroRejected ==
    \A c \in LogCalls : \A module_idx \in mask_idx_values(c.mask) :
        c.mask = 0 =>
            origin_log(syslog, c.mask, c.level, c.line, c.text, module_idx) = syslog


\* ------------------------------------------------------------------------
\* Shell: shell_dispatch
\* ------------------------------------------------------------------------
\* add_to_history (SPS_ENABLE_HISTORY)
add_to_history(sh, cmd) ==
    IF cmd = <<>> THEN sh
    ELSE LET kept == SubSeq(cmd, 1, Min(Len(cmd), SPS_CMD_MAX - 1))
         IN  IF Len(sh.history) < HISTORY_SIZE
             THEN [sh EXCEPT !.history = Append(@, kept)]
             ELSE [sh EXCEPT !.history = Append(Tail(@), kept)]

\* process_command for a command line that names no registered command:
\* nothing for a line of spaces, "command not found\r\n" otherwise
process_command(cmd_str) ==
    IF \A i \in DOMAIN cmd_str : cmd_str[i] = 32 THEN <<>>
    ELSE <<99, 111, 109, 109, 97, 110, 100, 32, 110, 111, 116, 32, 102, 111, 117,
           110, 100, 13, 10>>

\* handle_newline
handle_newline(sh) ==
    LET run == sh.cmd_len > 0
        usr_out == IF run THEN process_command(sh.cmd_buf) ELSE <<>>
        sh1 == IF run
               THEN [add_to_history(sh, sh.cmd_buf) EXCEPT !.cmd_buf = <<>>, !.cmd_len = 0]
               ELSE sh
        remain_len == MAX_OUT_LEN - Len(NEW_LINE) - Len(usr_out)
        cpy_len == Min(remain_len, Len(NEW_LINE_PROMPT))
        output == NEW_LINE \o usr_out \o SubSeq(NEW_LINE_PROMPT, 1, cpy_len)
    IN  add_msg(sh1, output, Len(usr_out) + Len(NEW_LINE) + Len(NEW_LINE_PROMPT))

\* handle_backspace: "\b \b" is written when a character is removed
handle_backspace(sh) ==
    IF sh.cmd_len > 0
    THEN [sh EXCEPT !.out = Append(@, <<8, 32, 8>>), !.cmd_len = @ - 1,
                    !.cmd_buf = SubSeq(@, 1, sh.cmd_len - 1)]
    ELSE sh

\* handle_regular_char: echo, or "\r\n!command too long!\r\n"
handle_regular_char(sh, ch) ==
    IF sh.cmd_len < SPS_CMD_MAX - 1
    THEN [sh EXCEPT !.cmd_buf = Append(@, ch), !.cmd_len = @ + 1,
                    !.out = Append(@, <<ch>>)]
    ELSE [sh EXCEPT !.out = Append(@, <<13, 10, 33, 99, 111, 109, 109, 97, 110, 100, 32,
                                        116, 111, 111, 32, 108, 111, 110, 103, 33, 13, 10>>),
                    !.cmd_len = 0, !.cmd_buf = <<>>]

\* shell_parser for input without escape sequences and tabs
RECURSIVE shell_parser(_)
shell_parser(sh) ==
    IF is_queue_empty(sh.rx_queue) THEN sh
    ELSE LET ch == queue_peek(sh.rx_queue, 1)[1]
             sh1 == [sh EXCEPT !.rx_queue = queue_get(@, 1)]
         IN  Then(IF ch = 13 \/ ch = 10 THEN handle_newline(sh1)
                  ELSE IF ch = 8 \/ ch = 127 THEN handle_backspace(sh1)
                  ELSE handle_regular_char(sh1, ch), shell_parser)

\* flush_tx_buffer: [sh, sent]; sent = <<the buffer written>> or <<>>
flush_tx_buffer(sh) ==
    LET header == queue_peek(sh.tx_queue, sh.size_t)
        q1 == queue_get(sh.tx_queue, sh.size_t)
        flush_len == LeValue(header)
        tmp_buf == queue_peek(q1, flush_len)
        q2 == queue_get(q1, flush_len)
    IN  IF Len(header) # sh.size_t
        THEN [sh |-> [sh EXCEPT !.tx_queue = q1], sent |-> <<>>]
        ELSE IF flush_len = 0 \/ flush_len > TX_QUEUE_SIZE
        THEN [sh |-> [sh EXCEPT !.tx_queue = q1], sent |-> <<>>]
        ELSE IF Len(tmp_buf) # flush_len
        THEN [sh |-> [sh EXCEPT !.tx_queue = q2], sent |-> <<>>]
        ELSE [sh |-> [sh EXCEPT !.tx_queue = q2, !.out = Append(@, tmp_buf)],
              sent |-> <<tmp_buf>>]

\* what opts->read returns: nothing, single keys, a command line, line ends
\* of one and two characters and a run of line ends
MaxDispatch == 3
ShellInputs ==
    {<<>>, <<120>>, <<120, 8>>, <<10>>, <<13, 10>>, <<108, 115, 13>>,
     [i \in 1..8 |-> 10]}

\* shell_dispatch
shell_dispatch ==
    /\ shell.is_active
    /\ shell.calls < MaxDispatch
    /\ \E tmp_buf \in ShellInputs :
          shell' = [flush_tx_buffer(
                        shell_parser([shell EXCEPT !.rx_queue = queue_add(@, tmp_buf)])).sh
                    EXCEPT !.calls = @ + 1]
    /\ UNCHANGED <<master_vars, rs485, slave, syslog>>

NextShell == shell_dispatch

InitShell ==
    /\ mb_mst_init(U32(1), TRUE)
    /\ rs485 = rs485_driver_init
    /\ slave = mb_slv_init(SlaveAddr, work_table)
    /\ syslog = LogStart(4)
    /\ \E size_t \in {4, 8} : shell = simple_shell_init(size_t)

SpecShell == InitShell /\ [][NextShell]_vars

\* ------------------------------------------------------------------------
\* C40: after any sequence of shell_dispatch calls the TX queue holds a
\* whole number of complete messages [length | payload], each with
\* 0 < length <= TX_QUEUE_SIZE, and flush_tx_buffer sends the payload of
\* the first of them in full.
\* ------------------------------------------------------------------------
RECURSIVE WholeMessages(_, _)
WholeMessages(bytes, size_t) ==
    \/ bytes = <<>>
    \/ /\ Len(bytes) >= size_t
       /\ \E len \in {LeValue(SubSeq(bytes, 1, size_t))} :
             /\ 0 < len /\ len <= TX_QUEUE_SIZE
             /\ Len(bytes) >= size_t + len
             /\ WholeMessages(SubSeq(bytes, size_t + len + 1, Len(bytes)), size_t)

C40_MessagesAtomic ==
    \E bytes \in {queue_peek(shell.tx_queue, shell.tx_queue.wr - shell.tx_queue.rd)} :
        /\ WholeMessages(bytes, shell.size_t)
        /\ bytes # <<>> =>
              flush_tx_buffer(shell).sent =
                  <<SubSeq(bytes, shell.size_t + 1,
                           shell.size_t + LeValue(SubSeq(bytes, 1, shell.size_t)))>>

====
